---------------------------- MODULE Spec2Model ----------------------------
(***************************************************************************)
(* Element Locator Discovery & Ranking Engine.                             *)
(*                                                                         *)
(* These state machines share this module:                                 *)
(*   Spec      - the Page Session Manager (utils/xpath_finder/browser.py): *)
(*               get_page as a coroutine resumed at each of its awaits,    *)
(*               the session cache, the disk snapshot cache and the clock. *)
(*   SpecRank  - the Candidate Ranker (utils/xpath_finder/tool.py).        *)
(*   SpecCrash - Spec where the process can be killed during a write.      *)
(*   SpecSynth - the Robust Locator Synthesizer                            *)
(*               (agent_analyzer/xpath_finder/xpath.py).                   *)
(*   SpecMatch - the Fuzzy Matcher (agent_analyzer/xpath_finder/           *)
(*               matching.py).                                             *)
(*   SpecHint  - hint parsing (_parse_hint of tool.py).                    *)
(*   SpecScroll- the lazy-load scroll routine (_scroll_to_load).           *)
(*   SpecFind  - find_xpath and find_multiple_xpath with their three       *)
(*               discovery strategies (tool.py).                           *)
(***************************************************************************)
EXTENDS Integers, Sequences, FiniteSets, TLC

VARIABLES
    \* ---- Page Session Manager ----
    browser,      \* _browser: 0 for None, else the id of the launched browser
    launches,     \* number of chromium.launch() calls completed in this process
    page_cache,   \* _page_cache: url -> page id, 0 when the url has no entry
    pages,        \* page id -> how the page was populated
    disk,         \* .dom_cache: url -> NoFile or [mtime, html]
    now,          \* time.time(), in seconds
    calls,        \* one record per get_page coroutine slot of this process
    returned,     \* url -> the pages completed get_page(url) calls returned
    last,         \* what the get_page call that completed last did
    \* ---- Candidate Ranker ----
    candidates,   \* the list the strategies append to
    top_n,        \* the requested result count
    ranked,       \* the list _rank_candidates returned
    rpc,          \* "collect" while strategies append, "done" after ranking
    \* ---- Robust Locator Synthesizer ----
    doc,          \* the document: a sequence of elements in document order
    target,       \* the element get_element_info was last called on (0: none)
    info,         \* the record get_element_info returned
    \* ---- Fuzzy Matcher ----
    text1,        \* first argument of similarity / id_similarity
    text2,        \* second argument
    score,        \* which function ran last, and the ratio it returned
    \* ---- Hint parsing ----
    hint,         \* the raw hint
    search_text,  \* what _parse_hint returned for it
    \* ---- Scroll routine ----
    scroll,       \* the locals of _scroll_to_load and its position
    body_height,  \* document.body.scrollHeight of the page being scrolled
    \* ---- Discovery ----
    find,         \* the running find_xpath / find_multiple_xpath call
    \* ---- File tools ----
    files,        \* the file system, and what the last call of a tool did
    \* ---- Test case reader ----
    batch         \* the TOON file, .batch_state, and the last run's output

pageVars  == <<browser, launches, page_cache, pages, disk, now, calls,
               returned, last>>
rankVars  == <<candidates, top_n, ranked, rpc>>
synthVars == <<doc, target, info>>
matchVars == <<text1, text2, score>>
hintVars  == <<hint, search_text>>
scrollVars == <<scroll, body_height>>
findVars  == <<find>>
toolVars  == <<files, batch>>
vars      == <<pageVars, rankVars, synthVars, matchVars, hintVars, scrollVars,
               findVars, toolVars>>

(***************************************************************************)
(*                         PAGE SESSION MANAGER                            *)
(***************************************************************************)
MaxInFlight == 2       \* get_page coroutines suspended at the same time
MaxPages    == 2       \* pages created per process
MaxTicks    == 2       \* clock steps
TTL      == 3600       \* snapshot lifetime in seconds
TickStep == TTL \div 2 \* granularity of the modelled clock
MaxTime  == MaxTicks * TickStep

URLs    == {"u1", "u2"}
CallIds == 1..MaxInFlight
PageIds == 1..MaxPages
NoFile  == [mtime |-> -1, html |-> "absent"]

\* page.content() of a loaded page: a non-empty serialisation of the document.
LiveHtml(u) == "html"

\* A coroutine slot: the position and the locals of a suspended get_page.
\* snap records what line 50 found: "none", "fresh" (age < 3600) or "expired".
IdleCall == [pc |-> "idle", url |-> "none", page |-> 0, snap |-> "untested"]

\* What the get_page call that completed last did, for the properties:
\*   prior   - the pages that completed get_page(url) calls of this process
\*             had returned when this call began
\*   hit     - line 40 returned the session's page
\*   created - the call created a context and a page
\*   navs    - page.goto invocations by this call
\*   snap    - the snapshot of url when the call looked at the cache: at line
\*             50, or at line 39 when the session was returned
\*   raised  - the call ended by raising instead of returning its page
NoCall == [url |-> "none", page |-> 0, prior |-> {}, hit |-> FALSE,
           created |-> FALSE, navs |-> 0, snap |-> "untested",
           raised |-> FALSE]

InitPageVars ==
    /\ browser = 0
    /\ launches = 0
    /\ page_cache = [u \in URLs |-> 0]
    /\ pages = [p \in PageIds |-> "unused"]
    /\ disk = [u \in URLs |-> NoFile]
    /\ now = 0
    /\ returned = [u \in URLs |-> {}]
    /\ calls = [c \in CallIds |-> IdleCall]
    /\ last = NoCall

InFlight  == {c \in CallIds : calls[c].pc # "idle"}
\* pages already created, and those the suspended calls are about to create
PagesUsed == Cardinality({p \in PageIds : pages[p] # "unused"})
PagesDue  == Cardinality({c \in InFlight : calls[c].page = 0})

\* os.path.exists(cache_path)
Exists(u) == disk[u] # NoFile
\* time.time() - os.path.getmtime(cache_path)
Age(u) == now - disk[u].mtime
\* the snapshot's state as the properties see it
SnapshotState(u) ==
    IF disk[u] = NoFile THEN "none"
    ELSE IF now - disk[u].mtime >= 3600 THEN "expired"
    ELSE IF disk[u].html = "undecodable" THEN "unreadable" ELSE "fresh"

\* line 50: os.path.exists(cache_path) and time.time() - getmtime < 3600
FreshMutLe(u) == Exists(u) /\ Age(u) <= TTL
FreshMutMinutes(u) == Exists(u) /\ Age(u) < TTL \div 60
Fresh(u) == Exists(u) /\ Age(u) < TTL

\* lines 51-52: open(cache_path, "r", encoding="utf-8") and f.read() are not
\* inside any try: bytes that are not UTF-8 raise UnicodeDecodeError
ReadRaises(u) == Fresh(u) /\ disk[u].html = "undecodable"

\* lines 48-54: cached_html is read when the file is fresh, and used when truthy
UseCache(u) == Fresh(u) /\ disk[u].html # ""

\* line 69: except Exception catches what the awaits of lines 62-66 raise
SwallowsMutReraises == FALSE
Swallows == TRUE

\* lines 69-73: the except block prints the error and writes no file
FailureWritesMutErrorPage == TRUE
FailureWrites == FALSE

\* lines 76-77: register the session and return the page
Register(c, navigated) ==
    LET u == calls[c].url
        p == calls[c].page
    IN /\ page_cache' = [page_cache EXCEPT ![u] = p]
       /\ returned' = [returned EXCEPT ![u] = @ \cup {p}]
       /\ last' = [url |-> u, page |-> p, prior |-> {}, hit |-> FALSE,
                   created |-> TRUE, navs |-> IF navigated THEN 1 ELSE 0,
                   snap |-> calls[c].snap, raised |-> FALSE]
       /\ calls' = [calls EXCEPT ![c] = IdleCall]

\* an exception leaves get_page: nothing is registered, nothing is returned,
\* the context and the page that were created stay open
Raise(c, p, snap, navigated) ==
    /\ last' = [url |-> calls[c].url, page |-> p, prior |-> {},
                hit |-> FALSE, created |-> TRUE,
                navs |-> IF navigated THEN 1 ELSE 0, snap |-> snap,
                raised |-> TRUE]
    /\ calls' = [calls EXCEPT ![c] = IdleCall]
    /\ UNCHANGED <<page_cache, returned>>

\* line 39: url in _page_cache
SessionHit(u) == page_cache[u] # 0

\* the ranker and the synthesizer keep no state the session manager touches
PageOnly == UNCHANGED <<rankVars, synthVars, matchVars, hintVars,
                        scrollVars, findVars, toolVars>>

\* get_page(url) is called: lines 39-42 run up to the first await, or to the
\* return of line 40
Call(c, u) ==
    /\ calls[c].pc = "idle"
    /\ \A d \in CallIds : d < c => calls[d].pc # "idle"
    /\ IF SessionHit(u)
       THEN /\ last' = [url |-> u, page |-> page_cache[u],
                        prior |-> returned[u], hit |-> TRUE,
                        created |-> FALSE, navs |-> 0,
                        snap |-> SnapshotState(u), raised |-> FALSE]
            /\ returned' = [returned EXCEPT ![u] = @ \cup {page_cache[u]}]
            /\ UNCHANGED calls
       ELSE /\ PagesUsed + PagesDue < MaxPages
            /\ calls' = [calls EXCEPT ![c] =
                   [IdleCall EXCEPT !.url = u, !.pc =
                       IF browser = 0 THEN "launch" ELSE "new_context"]]
            /\ UNCHANGED <<returned, last>>
    /\ UNCHANGED <<browser, launches, page_cache, pages, disk, now>>
    /\ PageOnly

\* _get_browser lines 21-23: async_playwright().start() and then
\* chromium.launch() have completed
Launched(c) ==
    /\ calls[c].pc = "launch"
    /\ launches' = launches + 1
    /\ browser' = launches + 1
    /\ calls' = [calls EXCEPT ![c].pc = "new_context"]
    /\ UNCHANGED <<page_cache, pages, disk, now, returned, last>>
    /\ PageOnly

\* lines 43-44: browser.new_context() and context.new_page() have completed;
\* lines 47-62 run up to set_content or goto being awaited, or to the read of
\* lines 51-52 raising
FreshPage == CHOOSE p \in PageIds : pages[p] = "unused"

PageCreated(c) ==
    /\ calls[c].pc = "new_context"
    /\ LET u == calls[c].url
           p == FreshPage
       IN /\ pages' = [pages EXCEPT ![p] = "blank"]
          /\ IF ReadRaises(u)
             THEN Raise(c, p, SnapshotState(u), FALSE)
             ELSE /\ calls' = [calls EXCEPT ![c] =
                        [@ EXCEPT !.page = p,
                                  !.snap = SnapshotState(u),
                                  !.pc = IF UseCache(u) THEN "set_content"
                                                       ELSE "goto"]]
                  /\ UNCHANGED <<page_cache, returned, last>>
    /\ UNCHANGED <<browser, launches, disk, now>>
    /\ PageOnly

\* line 59: page.set_content(cached_html) has completed; lines 76-77
ContentSet(c) ==
    /\ calls[c].pc = "set_content"
    /\ pages' = [pages EXCEPT ![calls[c].page] = "snapshot"]
    /\ Register(c, FALSE)
    /\ UNCHANGED <<browser, launches, disk, now>>
    /\ PageOnly

\* lines 62-64: page.goto(url), page.wait_for_timeout(2000) and
\* _scroll_to_load(page) have completed; page.content() is awaited
GotoOk(c) ==
    /\ calls[c].pc = "goto"
    /\ pages' = [pages EXCEPT ![calls[c].page] = "live"]
    /\ calls' = [calls EXCEPT ![c].pc = "content"]
    /\ UNCHANGED <<browser, launches, page_cache, disk, now, returned, last>>
    /\ PageOnly

\* lines 65-68: page.content() has completed, the snapshot is written; 76-77
ContentSaved(c) ==
    /\ calls[c].pc = "content"
    /\ disk' = [disk EXCEPT ![calls[c].url] =
                    [mtime |-> now, html |-> LiveHtml(calls[c].url)]]
    /\ Register(c, TRUE)
    /\ UNCHANGED <<browser, launches, pages, now>>
    /\ PageOnly

\* lines 69-73: an await inside the try raised; the error is printed; 76-77
LoadFailed(c) ==
    /\ calls[c].pc \in {"goto", "content"}
    /\ IF Swallows THEN Register(c, TRUE)
                   ELSE Raise(c, calls[c].page, calls[c].snap, TRUE)
    /\ disk' = IF FailureWrites
               THEN [disk EXCEPT ![calls[c].url] =
                        [mtime |-> now, html |-> LiveHtml(calls[c].url)]]
               ELSE disk
    /\ UNCHANGED <<browser, launches, pages, now>>
    /\ PageOnly

\* the clock advances while coroutines are suspended or between calls
Tick ==
    /\ now + TickStep <= MaxTime
    /\ now' = now + TickStep
    /\ UNCHANGED <<browser, launches, page_cache, pages, disk, calls,
                   returned, last>>
    /\ PageOnly

\* the process exits and a new one imports the module (lines 12-14):
\* the globals are fresh, the snapshot files stay
Restart ==
    /\ browser # 0 \/ InFlight # {}
    /\ browser' = 0
    /\ launches' = 0
    /\ page_cache' = [u \in URLs |-> 0]
    /\ pages' = [p \in PageIds |-> "unused"]
    /\ returned' = [u \in URLs |-> {}]
    /\ calls' = [c \in CallIds |-> IdleCall]
    /\ last' = NoCall
    /\ UNCHANGED <<disk, now>>
    /\ PageOnly

\* the process is killed while line 68 writes the snapshot of call c: the file
\* is left cut short inside a multi-byte character, no longer UTF-8
Killed(c) ==
    /\ calls[c].pc = "content"
    /\ disk' = [disk EXCEPT ![calls[c].url] =
                    [mtime |-> now, html |-> "undecodable"]]
    /\ browser' = 0
    /\ launches' = 0
    /\ page_cache' = [u \in URLs |-> 0]
    /\ pages' = [p \in PageIds |-> "unused"]
    /\ returned' = [u \in URLs |-> {}]
    /\ calls' = [d \in CallIds |-> IdleCall]
    /\ last' = NoCall
    /\ UNCHANGED now
    /\ PageOnly

NextPage ==
    \/ \E c \in CallIds, u \in URLs : Call(c, u)
    \/ \E c \in CallIds : Launched(c)
    \/ \E c \in CallIds : PageCreated(c)
    \/ \E c \in CallIds : ContentSet(c)
    \/ \E c \in CallIds : GotoOk(c)
    \/ \E c \in CallIds : ContentSaved(c)
    \/ \E c \in CallIds : LoadFailed(c)
    \/ Tick
    \/ Restart

\* the session manager in an environment where the process can be killed
\* while it writes a snapshot
NextCrash ==
    \/ NextPage
    \/ \E c \in CallIds : Killed(c)

(***************************************************************************)
(* Properties of the Page Session Manager                                  *)
(***************************************************************************)
\* A call that finds no session for its url began before any get_page(url) of
\* this process completed, which is why Register records an empty prior.
NoSessionNothingReturned ==
    \A u \in URLs : page_cache[u] = 0 => returned[u] = {}

\* C1: once a get_page(url) call has completed, every later get_page(url)
\* call of the process returns the same page object as that call did, and
\* creates no context or page, reads no snapshot and navigates nowhere.
C1_LaterCallsReturnSamePage ==
    \A p \in last.prior :
        /\ last.page = p
        /\ last.hit /\ ~last.created /\ last.navs = 0

\* C2 as stated: a request that finds the snapshot of its url less than 3600
\* seconds old does not navigate, and its page is populated from the stored
\* HTML by content injection.
C2_FreshSnapshotIsInjected ==
    last.snap = "fresh" =>
        last.navs = 0 /\ pages[last.page] = "snapshot"

\* C2 as amended: a request that finds the snapshot of its url less than 3600
\* seconds old does not navigate; it returns the session's page, creating
\* nothing, when the process has a session for the url, and otherwise
\* populates its new page from the stored HTML by content injection.
C2_FreshSnapshotNoNavigation ==
    last.snap = "fresh" =>
        /\ last.navs = 0
        /\ IF last.hit THEN ~last.created /\ last.page \in last.prior
                       ELSE last.created /\ pages[last.page] = "snapshot"

\* C2 witness: a call without a session found a fresh snapshot and completed
\* with an injected page.
C2_Witness ==
    /\ last.snap = "fresh" /\ ~last.hit
    /\ pages[last.page] = "snapshot"
    /\ page_cache[last.url] = last.page

\* C3 as stated: a request that finds the snapshot of its url expired (3600
\* seconds old or more) triggers exactly one live navigation, whatever
\* requests came before.
C3_ExpiredSnapshotNavigates ==
    last.snap = "expired" => last.navs = 1

\* C3 as amended: a request that finds no session for its url and finds the
\* snapshot expired triggers exactly one live navigation; a request that
\* finds a session triggers none, however old the snapshot.
C3_ExpiredNavigatesUnlessSession ==
    /\ last.snap = "expired" /\ ~last.hit => last.navs = 1
    /\ last.hit => last.navs = 0

\* C3 witness: a call without a session found an expired snapshot, navigated
\* once and completed.
C3_Witness ==
    /\ last.snap = "expired" /\ ~last.hit /\ last.navs = 1
    /\ page_cache[last.url] = last.page

\* C14: when the live load of a get_page call fails (an await of lines 62-66
\* raises), the call does not raise: it registers its page, blank or partly
\* loaded, as the session of its url and returns it.  Stated for every step
\* in which a call that is inside the try block ends while the process lives
\* on and the snapshot on disk stays as it was.
C14_FailedLoadStillReturnsPage ==
    [][\A c \in CallIds :
          (/\ calls[c].pc \in {"goto", "content"}
           /\ calls'[c].pc = "idle"
           /\ browser' = browser
           /\ disk' = disk)
          => /\ ~last'.raised
             /\ last'.page = calls[c].page
             /\ page_cache'[calls[c].url] = calls[c].page
             /\ calls[c].page \in returned'[calls[c].url]]_vars

\* C14 witness: a call navigated, its goto failed before anything was loaded
\* or saved, and its blank page is the registered, returned session.
C14_Witness ==
    /\ last.navs = 1 /\ ~last.raised /\ ~last.hit
    /\ disk[last.url] = NoFile
    /\ pages[last.page] = "blank"
    /\ page_cache[last.url] = last.page
    /\ last.page \in returned[last.url]

\* C15: a request without a session that finds the disk entry of its url
\* expired or unreadable treats it as a cache miss: it raises no error and
\* performs one live navigation.
C15_UnreadableIsCacheMiss ==
    (last.snap \in {"expired", "unreadable"} /\ ~last.hit)
    => (~last.raised /\ last.navs = 1)

\* C20: at most one browser is launched per process.
C20_AtMostOneBrowserLaunch == launches <= 1

\* C27: at most one page is ever registered and returned for a url, also
\* when several get_page calls for it are in flight together: all callers of
\* the process receive the same page.
C27_OneSessionPerUrl ==
    \A u \in URLs : Cardinality(returned[u]) <= 1

\* C30: a call whose navigation raises leaves every snapshot as it was (none
\* is created, an expired one keeps its content and its modification time),
\* and a snapshot only ever changes by a call writing the HTML of its page
\* after the navigation of that page completed.
C30_FailedLoadLeavesSnapshots ==
    [][/\ \A c \in CallIds :
             (calls[c].pc = "goto" /\ calls'[c].pc = "idle") => disk' = disk
       /\ \A u \in URLs :
             disk'[u] # disk[u] =>
                \E c \in CallIds :
                    /\ calls[c].url = u /\ calls[c].pc = "content"
                    /\ pages[calls[c].page] = "live"
                    /\ disk'[u] = [mtime |-> now, html |-> LiveHtml(u)]]_vars

\* C30 witness: a call found an expired snapshot, its navigation raised, and
\* the snapshot is still there, still expired.
C30_Witness ==
    /\ last.navs = 1 /\ ~last.raised /\ ~last.hit
    /\ pages[last.page] = "blank"
    /\ last.snap = "expired"
    /\ SnapshotState(last.url) = "expired"

(***************************************************************************)
(*                           CANDIDATE RANKER                              *)
(***************************************************************************)
\* ---- locators: the value of an info record's "xpath" ----
\* the absent predicate
NoPred == [k |-> "none", name |-> "", lit |-> [ok |-> TRUE, str |-> <<>>]]
\* The expressions the synthesizer builds:
\*   "path"    //tag[p1 and p2 ...]           (//tag when preds is empty)
\*   "scoped"  //*[scope]//tag[p1 and p2]
\*   "indexed" (//tag[p1 and p2])[idx]
\*   "empty"   the empty string
XPath(form, scope, tag, preds, idx) ==
    [form |-> form, scope |-> scope, tag |-> tag, preds |-> preds, idx |-> idx]
PathX(tag, preds)          == XPath("path", NoPred, tag, preds, 0)
ScopedX(scope, tag, preds) == XPath("scoped", scope, tag, preds, 0)
IndexedX(tag, preds, i)    == XPath("indexed", NoPred, tag, preds, i)
EmptyX                     == XPath("empty", NoPred, "", <<>>, 0)

MaxCands == 3          \* candidates the strategies append in one search
MaxTopN  == 3          \* largest requested result count

\* (xpath, tag) of the info records the strategies build candidates from; the
\* pair <<EmptyX, "">> is the record get_element_info falls back to (xpath.py:182)
InfoKeys == {<<PathX("a", <<>>), "a">>, <<PathX("b", <<>>), "b">>,
             <<PathX("a", <<>>), "b">>, <<EmptyX, "a">>, <<EmptyX, "">>}
\* round(confidence, 3), in thousandths
Confs    == {500, 900}
\* top_n is an int the caller chooses
TopNs    == (-1)..MaxTopN

IdleRankVars ==
    /\ candidates = <<>>
    /\ top_n = 0
    /\ ranked = <<>>
    /\ rpc = "collect"

\* A candidate dict. src is the identity of the dict object: the position at
\* which it was appended. rank is 0 until line 250 sets it.
Candidate(k, conf, n) ==
    [xpath |-> k[1], tag |-> k[2], confidence |-> conf, src |-> n, rank |-> 0]

\* line 244: key = (c.get("xpath", ""), c.get("tag", ""))
Key(c) == <<c.xpath, c.tag>>

\* line 245, first conjunct: key[0] is truthy
EligibleMutAny(c) == TRUE
Eligible(c) == c.xpath # EmptyX

\* line 245, second conjunct, for a key that is in seen
ReplacesMutNever(old, c) == FALSE
Replaces(old, c) == old.confidence < c.confidence

\* lines 245-246 for one candidate; seen is the dict's values in the order in
\* which their keys were inserted (assigning to a key that is present keeps
\* the key's place)
SeenPut(seen, c) ==
    IF ~Eligible(c) THEN seen
    ELSE IF \E i \in 1..Len(seen) : Key(seen[i]) = Key(c)
         THEN LET i == CHOOSE j \in 1..Len(seen) : Key(seen[j]) = Key(c)
              IN IF Replaces(seen[i], c) THEN [seen EXCEPT ![i] = c] ELSE seen
         ELSE Append(seen, c)

\* lines 242-246
RECURSIVE Dedup(_, _)
Dedup(seen, cands) ==
    IF cands = <<>> THEN seen
    ELSE Dedup(SeenPut(seen, Head(cands)), Tail(cands))

\* sorted(..., key=confidence, reverse=True) places an entry behind every entry
\* that sorts before it or ties with it and came earlier (the sort is stable,
\* also with reverse=True)
SortsBeforeMutUnstable(x, c) == x.confidence > c.confidence
SortsBefore(x, c) == x.confidence >= c.confidence

SortedPut(sorted, c) ==
    LET ahead == {i \in 1..Len(sorted) : SortsBefore(sorted[i], c)}
        k == IF ahead = {} THEN 0
             ELSE CHOOSE i \in ahead : \A j \in ahead : j <= i
    IN SubSeq(sorted, 1, k) \o <<c>> \o SubSeq(sorted, k + 1, Len(sorted))

RECURSIVE SortByConfidence(_, _)
SortByConfidence(sorted, rest) ==
    IF rest = <<>> THEN sorted
    ELSE SortByConfidence(SortedPut(sorted, Head(rest)), Tail(rest))

\* the slice [:n] of line 248: a negative n counts from the end
SliceToMutNoSlice(seq, n) == seq
SliceTo(seq, n) ==
    IF n >= 0 THEN SubSeq(seq, 1, IF n < Len(seq) THEN n ELSE Len(seq))
    ELSE SubSeq(seq, 1, IF Len(seq) + n > 0 THEN Len(seq) + n ELSE 0)

\* lines 249-250: enumerate(result, 1)
RankOfMutFromZero(i) == i - 1
RankOf(i) == i

WithRanks(seq) == [i \in 1..Len(seq) |-> [seq[i] EXCEPT !.rank = RankOf(i)]]

\* lines 240-251
RankCandidates(cands, n) ==
    WithRanks(SliceTo(SortByConfidence(<<>>, Dedup(<<>>, cands)), n))

RankOnly == UNCHANGED <<pageVars, synthVars, matchVars, hintVars,
                        scrollVars, findVars, toolVars>>

\* tool.py:167, 195, 229: a strategy appends a candidate
AppendCandidate(k, conf) ==
    /\ rpc = "collect"
    /\ Len(candidates) < MaxCands
    /\ candidates' =
           Append(candidates, Candidate(k, conf, Len(candidates) + 1))
    /\ UNCHANGED <<top_n, ranked, rpc>>
    /\ RankOnly

\* tool.py:88: return _rank_candidates(candidates, top_n)
Rank(n) ==
    /\ rpc = "collect"
    /\ top_n' = n
    /\ ranked' = RankCandidates(candidates, n)
    /\ rpc' = "done"
    /\ UNCHANGED candidates
    /\ RankOnly

\* tool.py:76: the next search starts with candidates = []
NewSearch ==
    /\ rpc = "done"
    /\ candidates' = <<>>
    /\ top_n' = 0
    /\ ranked' = <<>>
    /\ rpc' = "collect"
    /\ RankOnly

NextRank ==
    \/ \E k \in InfoKeys, conf \in Confs : AppendCandidate(k, conf)
    \/ \E n \in TopNs : Rank(n)
    \/ NewSearch

(***************************************************************************)
(* Properties of the Candidate Ranker                                      *)
(***************************************************************************)
RankedIdx == 1..Len(ranked)
CandIdx   == 1..Len(candidates)
\* the (locator, tag) pairs of the candidates with a non-empty locator
EligibleKeys == {Key(candidates[i]) : i \in {j \in CandIdx :
                                               candidates[j].xpath # EmptyX}}
\* where a (locator, tag) pair was first appended
FirstPos(k) == CHOOSE i \in CandIdx :
                  /\ Key(candidates[i]) = k
                  /\ \A j \in CandIdx : Key(candidates[j]) = k => i <= j

\* C4: no two entries of the returned list share a (locator, tag) pair, and
\* each entry is an input candidate whose confidence is the highest among the
\* input candidates with its pair.
C4_DedupKeepsHighest ==
    rpc = "done" =>
        /\ \A i, j \in RankedIdx : i # j => Key(ranked[i]) # Key(ranked[j])
        /\ \A i \in RankedIdx :
              /\ ranked[i].src \in CandIdx
              /\ candidates[ranked[i].src] = [ranked[i] EXCEPT !.rank = 0]
              /\ \A j \in CandIdx :
                    Key(candidates[j]) = Key(ranked[i])
                        => candidates[j].confidence <= ranked[i].confidence

\* C4 witness: two '//a' candidates with one tag, 0.5 before 0.9, and only the
\* 0.9 one is returned.
C4_Witness ==
    /\ rpc = "done" /\ Len(candidates) = 2 /\ Len(ranked) = 1
    /\ Key(candidates[1]) = <<PathX("a", <<>>), "a">>
    /\ Key(candidates[2]) = <<PathX("a", <<>>), "a">>
    /\ candidates[1].confidence = 500 /\ candidates[2].confidence = 900
    /\ ranked[1].confidence = 900 /\ ranked[1].src = 2

\* C5 as stated: the returned list has at most top_n entries, for every
\* top_n (none when top_n is below 1).
C5_AtMostTopN ==
    rpc = "done" => Len(ranked) <= (IF top_n < 0 THEN 0 ELSE top_n)

\* C5 as amended: for top_n >= 0 the returned list has at most top_n entries;
\* for top_n < 0 it holds all but the last -top_n deduplicated candidates.
C5_AtMostTopNWhenNonNegative ==
    rpc = "done" =>
        LET u == Cardinality(EligibleKeys)
        IN IF top_n >= 0
           THEN Len(ranked) <= top_n /\ Len(ranked) <= u
           ELSE Len(ranked) = (IF u + top_n > 0 THEN u + top_n ELSE 0)

\* C5 witness: more deduplicated candidates than requested, and exactly
\* top_n of them returned.
C5_Witness ==
    /\ rpc = "done" /\ top_n = 2
    /\ Cardinality(EligibleKeys) = 3 /\ Len(ranked) = 2

\* C6: the rank fields of the returned list are 1, 2, ..., n in list order.
C6_RanksContiguous ==
    rpc = "done" => \A i \in RankedIdx : ranked[i].rank = i

\* C6 witness: a returned list of three entries.
C6_Witness ==
    rpc = "done" /\ Len(ranked) = 3 /\ ranked[3].rank = 3

\* the returned list is in descending order of confidence
ConfidenceDescending ==
    \A i, j \in RankedIdx : i < j => ranked[i].confidence >= ranked[j].confidence

\* C7 as stated: descending confidence, and entries of equal confidence in the
\* order in which they themselves were appended.
C7_TiesInAppendOrder ==
    rpc = "done" =>
        /\ ConfidenceDescending
        /\ \A i, j \in RankedIdx :
              i < j /\ ranked[i].confidence = ranked[j].confidence
                  => ranked[i].src < ranked[j].src

\* C7 as amended: descending confidence, and entries of equal confidence in
\* the order in which their (locator, tag) pairs were first appended.
C7_TiesInKeyOrder ==
    rpc = "done" =>
        /\ ConfidenceDescending
        /\ \A i, j \in RankedIdx :
              i < j /\ ranked[i].confidence = ranked[j].confidence
                  => FirstPos(Key(ranked[i])) < FirstPos(Key(ranked[j]))

\* C7 witness: a tie in which the entry returned first was appended last,
\* having replaced an earlier candidate with its pair.
C7_Witness ==
    /\ rpc = "done" /\ Len(ranked) = 2
    /\ ranked[1].confidence = ranked[2].confidence
    /\ ranked[1].src > ranked[2].src
    /\ FirstPos(Key(ranked[1])) < ranked[2].src

\* C8: no entry of the returned list has an empty locator.
C8_NoEmptyLocator ==
    rpc = "done" => \A i \in RankedIdx : ranked[i].xpath # EmptyX

\* C8 witness: the fallback info record was appended first, other candidates
\* were returned, and the request left room for all of them.
C8_Witness ==
    /\ rpc = "done" /\ Len(candidates) = 3 /\ top_n = 3
    /\ Key(candidates[1]) = <<EmptyX, "">>
    /\ Len(ranked) = 2

(***************************************************************************)
(*                      ROBUST LOCATOR SYNTHESIZER                         *)
(***************************************************************************)
MaxRun == 3            \* copies of one element profile in a document

\* ---- strings: sequences of one-character strings ----
Digits == {"0", "1", "2", "3", "4", "5", "6", "7", "8", "9"}
HasQuote(s)  == \E i \in 1..Len(s) : s[i] = "'"
HasColon(s)  == \E i \in 1..Len(s) : s[i] = ":"
StartsWith(s, pre) == Len(pre) <= Len(s) /\ SubSeq(s, 1, Len(pre)) = pre
\* XPath contains(s, t) for a non-empty t
Contains(s, t) ==
    \E i \in 0..(Len(s) - Len(t)) : SubSeq(s, i + 1, i + Len(t)) = t

\* String.prototype.trim / XPath normalize-space, for the space character
RECURSIVE TrimLeft(_)
TrimLeft(s) == IF s # <<>> /\ Head(s) = " " THEN TrimLeft(Tail(s)) ELSE s
RECURSIVE TrimRight(_)
TrimRight(s) ==
    IF s # <<>> /\ s[Len(s)] = " " THEN TrimRight(SubSeq(s, 1, Len(s) - 1))
    ELSE s
Trim(s) == TrimRight(TrimLeft(s))
RECURSIVE Collapse(_)
Collapse(s) ==
    IF Len(s) < 2 THEN s
    ELSE IF s[1] = " " /\ s[2] = " " THEN Collapse(Tail(s))
    ELSE <<s[1]>> \o Collapse(Tail(s))
NormalizeSpace(s) == Collapse(Trim(s))

\* String.prototype.split(' '): consecutive spaces give empty tokens
RECURSIVE SplitFrom(_, _, _)
SplitFrom(s, cur, acc) ==
    IF s = <<>> THEN Append(acc, cur)
    ELSE IF Head(s) = " " THEN SplitFrom(Tail(s), <<>>, Append(acc, cur))
    ELSE SplitFrom(Tail(s), Append(cur, Head(s)), acc)
Split(s) == SplitFrom(s, <<>>, <<>>)

\* ---- the document ----
AttrNames == {"id", "data-testid", "name", "type", "value", "placeholder",
              "class", "aria-label"}
NoAttrs == [a \in AttrNames |-> <<>>]
\* tags whose text is a predicate (line 74)
TextTags == {"button", "a", "label", "span", "h1", "h2", "h3", "h4", "p",
             "div", "li"}

\* An element profile: its tag, its attributes (<<>>: absent or empty), the
\* text of its DOM string-value and its rendered innerText.
Profile(tag, attrs, text, inner) ==
    [tag |-> tag, attrs |-> attrs, text |-> text, inner |-> inner]

S_x    == <<"x">>
S_X    == <<"X">>
S_go   == <<"g", "o">>
S_box  == <<"b", "o", "x">>
S_q    == <<"q">>
S_txt  == <<"t", "x", "t">>

\* containers: a tag outside TextTags, with an id, with classes, or bare
ContainerProfiles ==
    { Profile("ul", [NoAttrs EXCEPT !["id"] = S_box], <<>>, <<>>),
      Profile("ul", [NoAttrs EXCEPT !["class"] = <<"r", "o", "w", " ", "b", "o", "x">>], <<>>, <<>>),
      Profile("ul", NoAttrs, <<>>, <<>>) }
BareContainer == Profile("ul", NoAttrs, <<>>, <<>>)

LeafProfiles ==
    { \* no predicate at all: td is outside TextTags
      Profile("td", NoAttrs, S_x, S_x),
      \* one predicate: text
      Profile("li", NoAttrs, S_x, S_x),
      \* two predicates: text and a class (btn is on the denylist)
      Profile("li", [NoAttrs EXCEPT !["class"] = <<"b", "t", "n", " ", "i", "t", "m">>], S_x, S_x),
      \* ids: plain, with a hyphen, with a colon inside, with a leading
      \* colon, with a leading digit, with a quote
      Profile("li", [NoAttrs EXCEPT !["id"] = S_go], S_x, S_x),
      Profile("li", [NoAttrs EXCEPT !["id"] = <<"g", "-", "b">>], S_x, S_x),
      Profile("li", [NoAttrs EXCEPT !["id"] = <<"g", ":", "o">>], S_x, S_x),
      Profile("li", [NoAttrs EXCEPT !["id"] = <<":", "g">>], S_x, S_x),
      Profile("li", [NoAttrs EXCEPT !["id"] = <<"1", "g">>], S_x, S_x),
      Profile("td", [NoAttrs EXCEPT !["id"] = <<"g", "'", "o">>], S_x, S_x),
      \* an input: name and type
      Profile("input", [NoAttrs EXCEPT !["name"] = S_q, !["type"] = S_txt],
              <<>>, <<>>),
      \* an attribute value with a quote, beside a text predicate
      Profile("li", [NoAttrs EXCEPT !["name"] = <<"o", "'", "k">>], S_x, S_x),
      \* rendered text that differs from the DOM text (text-transform)
      Profile("li", NoAttrs, S_x, S_X) }

Element(prof, parent) ==
    [tag |-> prof.tag, attrs |-> prof.attrs, text |-> prof.text,
     inner |-> prof.inner, parent |-> parent]

\* The documents: container A (first) holds n1 copies of profile k1; a bare
\* container B follows; n2 copies of profile k2 are the last children of A or
\* the children of B.
DocOf(pa, k1, n1, k2, n2, under) ==
    LET n    == 2 + n1 + n2
        posB == IF under = "A" THEN n ELSE 2 + n1
    IN [i \in 1..n |->
          IF i = 1 THEN Element(pa, 0)
          ELSE IF i = posB THEN Element(BareContainer, 0)
          ELSE IF i <= 1 + n1 THEN Element(k1, 1)
          ELSE Element(k2, IF under = "A" THEN 1 ELSE posB)]

Docs ==
    { DocOf(pa, k1, n1, k2, n2, under) :
        pa \in ContainerProfiles, k1 \in LeafProfiles, n1 \in 1..MaxRun,
        k2 \in LeafProfiles, n2 \in 0..MaxRun, under \in {"A", "B"} }

Nodes == 1..Len(doc)

\* ---- XPath expressions and their evaluation (document.evaluate) ----
\* A string literal spliced into an expression: whether the expression still
\* parses, and the string the literal denotes.
\* `'${value}'` (lines 42-93): a quote in value ends the literal early
RawQuoted(v) == [ok |-> ~HasQuote(v), str |-> v]
\* escapeXPathText (lines 11-17): '...' or, around quotes, concat(...)
EscapeXPathText(t) == [ok |-> TRUE, str |-> t]

AttrPred(name, v)  == [k |-> "attr", name |-> name, lit |-> RawQuoted(v)]
ClassPred(c)       == [k |-> "class", name |-> "class", lit |-> RawQuoted(c)]
TextPred(t)        == [k |-> "text", name |-> "", lit |-> EscapeXPathText(t)]

\* @name='v', contains(@class, 'c'), contains(normalize-space(.), t)
Holds(p, e) ==
    CASE p.k = "attr"  -> doc[e].attrs[p.name] = p.lit.str
      [] p.k = "class" -> Contains(doc[e].attrs["class"], p.lit.str)
      [] p.k = "text"  -> Contains(NormalizeSpace(doc[e].text), p.lit.str)
      [] OTHER -> TRUE

RECURSIVE IsDescendant(_, _)
IsDescendant(e, a) ==
    /\ doc[e].parent # 0
    /\ (doc[e].parent = a \/ IsDescendant(doc[e].parent, a))

Parses(x) ==
    /\ x.form # "empty"
    /\ x.scope.lit.ok
    /\ \A i \in 1..Len(x.preds) : x.preds[i].lit.ok

Selected(x, e) ==
    /\ doc[e].tag = x.tag
    /\ \A i \in 1..Len(x.preds) : Holds(x.preds[i], e)
    /\ x.form = "scoped" =>
          \E a \in Nodes : Holds(x.scope, a) /\ IsDescendant(e, a)

\* the nodes of //tag[...] in document order
RECURSIVE InOrder(_, _)
InOrder(x, from) ==
    IF from > Len(doc) THEN <<>>
    ELSE (IF Selected(x, from) THEN <<from>> ELSE <<>>) \o InOrder(x, from + 1)

\* the ordered node snapshot of a well-formed expression
Snapshot(x) ==
    LET all == InOrder(x, 1)
    IN IF x.form = "indexed"
       THEN (IF x.idx \in 1..Len(all) THEN <<all[x.idx]>> ELSE <<>>)
       ELSE all

\* countXPath (lines 22-29): 0 when document.evaluate throws
countXPath(x) == IF Parses(x) THEN Len(Snapshot(x)) ELSE 0

\* ---- getRobustXPath (lines 34-148) ----
\* line 41: element.id && !element.id.match(/^[0-9]|:/)
IdRegexMatches(id) == id[1] \in Digits \/ HasColon(id)
IdUsableMutInverted(id) == id # <<>> /\ IdRegexMatches(id)
IdUsable(id) == id # <<>> /\ ~IdRegexMatches(id)

\* line 84: the denylist of class prefixes
DeniedPrefixes ==
    {<<"b", "t", "n">>,
     <<"c", "o", "l", "-">>,
     <<"r", "o", "w">>,
     <<"c", "o", "n", "t", "a", "i", "n", "e", "r">>,
     <<"w", "r", "a", "p", "p", "e", "r">>,
     <<"a", "c", "t", "i", "v", "e">>,
     <<"d", "i", "s", "a", "b", "l", "e", "d">>,
     <<"h", "i", "d", "d", "e", "n">>,
     <<"s", "h", "o", "w">>,
     <<"f", "l", "e", "x">>,
     <<"g", "r", "i", "d">>,
     <<"m", "t", "-">>,
     <<"m", "b", "-">>,
     <<"p", "t", "-">>,
     <<"p", "b", "-">>,
     <<"p", "x", "-">>,
     <<"p", "y", "-">>,
     <<"m", "x", "-">>,
     <<"m", "y", "-">>}
Meaningful(c) ==
    /\ Len(c) > 2
    /\ ~\E pre \in DeniedPrefixes : StartsWith(c, pre)
    /\ c[1] \notin Digits

RECURSIVE Filter(_, _)
Filter(seq, from) ==
    IF from > Len(seq) THEN <<>>
    ELSE (IF Meaningful(seq[from]) THEN <<seq[from]>> ELSE <<>>)
         \o Filter(seq, from + 1)

FirstN(seq, n) == SubSeq(seq, 1, IF n < Len(seq) THEN n ELSE Len(seq))

\* lines 38-93: the predicates, in the order they are pushed (the id
\* predicate is pushed when line 43 did not return)
Optional(cond, p) == IF cond THEN <<p>> ELSE <<>>
Predicates(e) ==
    LET el == doc[e]
        at == el.attrs
        textContent == Trim(el.inner)
        classes == FirstN(Filter(Split(at["class"]), 1), 2)
    IN Optional(IdUsable(at["id"]), AttrPred("id", at["id"]))
       \o Optional(at["data-testid"] # <<>>,
                   AttrPred("data-testid", at["data-testid"]))
       \o Optional(at["name"] # <<>>, AttrPred("name", at["name"]))
       \o (IF el.tag = "input"
           THEN Optional(at["type"] # <<>>, AttrPred("type", at["type"]))
                \o Optional(at["value"] # <<>> /\ Len(at["value"]) < 20,
                            AttrPred("value", at["value"]))
                \o Optional(at["placeholder"] # <<>>,
                            AttrPred("placeholder", at["placeholder"]))
           ELSE <<>>)
       \o Optional(/\ textContent # <<>> /\ Len(textContent) < 50
                   /\ el.tag \in TextTags,
                   TextPred(textContent))
       \o [i \in 1..Len(classes) |-> ClassPred(classes[i])]
       \o Optional(at["aria-label"] # <<>>,
                   AttrPred("aria-label", at["aria-label"]))

Found(x, n)  == [raised |-> FALSE, xpath |-> x, count |-> n]
Raised       == [raised |-> TRUE, xpath |-> EmptyX, count |-> 0]

\* lines 116-124: the expression for the parent, NoPred when there is none
ParentScope(e) ==
    IF doc[e].parent = 0 THEN NoPred
    ELSE LET pat == doc[doc[e].parent].attrs
         IN IF pat["id"] # <<>> THEN AttrPred("id", pat["id"])
            ELSE IF pat["data-testid"] # <<>>
                 THEN AttrPred("data-testid", pat["data-testid"])
            ELSE IF pat["class"] # <<>> /\ Split(pat["class"])[1] # <<>>
                 THEN ClassPred(Split(pat["class"])[1])
            ELSE NoPred

\* lines 141-145: the position of the element in the snapshot, i + 1
PositionMutZeroBased(i) == i - 1
Position(i) == i

\* lines 134-147: the positional fallback; document.evaluate is not guarded
Fallback(e, preds) ==
    LET base == PathX(doc[e].tag, FirstN(preds, 2))
    IN IF ~Parses(base) THEN Raised
       ELSE LET siblings == Snapshot(base)
            IN IF \E i \in 1..Len(siblings) : siblings[i] = e
               THEN LET i == CHOOSE j \in 1..Len(siblings) : siblings[j] = e
                    IN Found(IndexedX(base.tag, base.preds, Position(i)), 1)
               ELSE Found(base, Len(siblings))

\* lines 116-131, then the fallback
ParentScoped(e, preds) ==
    LET scope == ParentScope(e)
        x == ScopedX(scope, doc[e].tag, FirstN(preds, 2))
    IN IF scope # NoPred /\ countXPath(x) = 1 THEN Found(x, 1)
       ELSE Fallback(e, preds)

\* line 112: count < 5
BelowThresholdMutUnique(count) == count < 2
BelowThreshold(count) == count < 5

\* lines 105-113, then the parent context
Combined(e, preds) ==
    LET x == PathX(doc[e].tag, FirstN(preds, 3))
        count == countXPath(x)
    IN IF Len(preds) > 1 /\ (count = 1 \/ BelowThreshold(count))
       THEN Found(x, count)
       ELSE ParentScoped(e, preds)

\* lines 98-102, then the combination
SinglePredicate(e, preds) ==
    LET unique == {i \in 1..Len(preds) :
                      countXPath(PathX(doc[e].tag, <<preds[i]>>)) = 1}
    IN IF unique # {}
       THEN LET i == CHOOSE j \in unique : \A k \in unique : j <= k
            IN Found(PathX(doc[e].tag, <<preds[i]>>), 1)
       ELSE Combined(e, preds)

\* lines 41-45, then the predicates
getRobustXPath(e) ==
    LET id == doc[e].attrs["id"]
        x  == PathX(doc[e].tag, <<AttrPred("id", id)>>)
    IN IF IdUsable(id) /\ countXPath(x) = 1 THEN Found(x, 1)
       ELSE SinglePredicate(e, Predicates(e))

\* lines 157-162: "tag", "#id" or "tag.firstClass"
Css(form, tag, val) == [form |-> form, tag |-> tag, val |-> val]
CssOf(e) ==
    LET at == doc[e].attrs
    IN IF at["id"] # <<>> THEN Css("id", "", at["id"])
       ELSE IF at["class"] # <<>> /\ Split(at["class"])[1] # <<>>
            THEN Css("class", doc[e].tag, Split(at["class"])[1])
       ELSE Css("tag", doc[e].tag, <<>>)

\* line 182: the record get_element_info falls back to
EmptyInfo ==
    [xpath |-> EmptyX, match_count |-> 0, css |-> Css("empty", "", <<>>),
     tag |-> "", text |-> <<>>, attributes |-> NoAttrs]

\* lines 150-171 and 176-182: get_element_info
ElementInfo(e) ==
    LET r == getRobustXPath(e)
    IN IF r.raised THEN EmptyInfo
       ELSE [xpath |-> r.xpath, match_count |-> r.count, css |-> CssOf(e),
             tag |-> doc[e].tag, text |-> FirstN(Trim(doc[e].inner), 200),
             attributes |-> doc[e].attrs]

IdleSynthVars == doc = <<>> /\ target = 0 /\ info = EmptyInfo

InitSynthVars == doc \in Docs /\ target = 0 /\ info = EmptyInfo

SynthOnly == UNCHANGED <<pageVars, rankVars, matchVars, hintVars,
                         scrollVars, findVars, toolVars>>

\* get_element_info(page, element) is called on an element of the page
GetElementInfo(e) ==
    /\ target' = e
    /\ info' = ElementInfo(e)
    /\ UNCHANGED doc
    /\ SynthOnly

NextSynth == \E e \in Nodes : GetElementInfo(e)

\* ---- properties of the synthesizer ----
IdLocator(e) == PathX(doc[e].tag, <<AttrPred("id", doc[e].attrs["id"])>>)
ResolvesTo(x, nodes) == Parses(x) /\ Snapshot(x) = nodes
ResolvesToOne(x) == Parses(x) /\ Len(Snapshot(x)) = 1

\* C9, as the specification states it: for an element whose id does not begin
\* with a digit or a colon and whose locator //tag[@id='...'] resolves to
\* exactly one node, the synthesizer returns exactly that locator with match
\* count 1.
C9_IdNotBeginningWithDigitOrColon ==
    target # 0 =>
        LET id == doc[target].attrs["id"]
        IN (/\ id # <<>>
            /\ id[1] \notin Digits \cup {":"}
            /\ ResolvesToOne(IdLocator(target)))
           => /\ info.xpath = IdLocator(target)
              /\ info.match_count = 1

\* C9, amended: for an element whose id does not begin with a digit and holds
\* no colon at any position, and whose locator //tag[@id='...'] resolves to
\* exactly one node, the synthesizer returns exactly that locator with match
\* count 1.
C9_IdWithoutLeadingDigitOrAnyColon ==
    target # 0 =>
        LET id == doc[target].attrs["id"]
        IN (/\ id # <<>>
            /\ id[1] \notin Digits
            /\ ~HasColon(id)
            /\ ResolvesToOne(IdLocator(target)))
           => /\ info.xpath = IdLocator(target)
              /\ info.match_count = 1

\* an element with a usable, unique id has been given its id locator
C9_Witness ==
    /\ target # 0
    /\ doc[target].attrs["id"] # <<>>
    /\ doc[target].attrs["id"][1] \notin Digits
    /\ ~HasColon(doc[target].attrs["id"])
    /\ ResolvesToOne(IdLocator(target))
    /\ info.xpath = IdLocator(target)
    /\ info.match_count = 1

\* the siblings of e that share its tag, attributes and text (e among them)
Twins(e) == {s \in Nodes : doc[s] = doc[e]}
\* every predicate built for e parses and is true of e itself
SelfDescribing(e) ==
    \A i \in 1..Len(Predicates(e)) :
        Predicates(e)[i].lit.ok /\ Holds(Predicates(e)[i], e)
CombinedLocator(e) == PathX(doc[e].tag, FirstN(Predicates(e), 3))

NoUniquePredicate(e) ==
    /\ ~(IdUsable(doc[e].attrs["id"]) /\ countXPath(IdLocator(e)) = 1)
    /\ \A i \in 1..Len(Predicates(e)) :
          countXPath(PathX(doc[e].tag, <<Predicates(e)[i]>>)) # 1
\* the nodes a locator resolves to: none when it is not well-formed
TrueCount(x) == IF Parses(x) THEN Len(Snapshot(x)) ELSE 0
\* the outcome of the parent-scoped attempt and what follows it
Escalated(e) ==
    LET r == ParentScoped(e, Predicates(e))
    IN info.xpath = r.xpath /\ info.match_count = r.count

\* C24, as the specification states it: when no single predicate is unique,
\* the conjunction of the first up-to-three predicates (one or more) is
\* returned if it resolves to exactly one node or to fewer than five, with
\* the true count as match count; otherwise the parent-scoped attempt
\* follows.  Stated for elements whose predicates are true of them.
C24_CombinedReturnedBelowFive ==
    (target # 0 /\ NoUniquePredicate(target) /\ SelfDescribing(target)
                /\ Len(Predicates(target)) >= 1)
    => IF TrueCount(CombinedLocator(target)) < 5
       THEN /\ info.xpath = CombinedLocator(target)
            /\ info.match_count = TrueCount(CombinedLocator(target))
       ELSE Escalated(target)

\* C24, amended: when no single predicate is unique and two or more
\* predicates were collected, the conjunction of the first three is returned
\* if it resolves to fewer than five nodes (none included), with that number
\* as match count, which is 0 for a conjunction that is not well-formed;
\* with fewer than two predicates, or five nodes or more, the parent-scoped
\* attempt follows.
C24_CombinedOfTwoOrMoreBelowFive ==
    (target # 0 /\ NoUniquePredicate(target))
    => IF /\ Len(Predicates(target)) >= 2
          /\ TrueCount(CombinedLocator(target)) < 5
       THEN /\ info.xpath = CombinedLocator(target)
            /\ info.match_count = TrueCount(CombinedLocator(target))
       ELSE Escalated(target)

\* C24 witness: an element with two predicates, neither unique, whose
\* conjunction matches two to four nodes, was given the conjunction.
C24_Witness ==
    /\ target # 0 /\ NoUniquePredicate(target)
    /\ Len(Predicates(target)) >= 2
    /\ TrueCount(CombinedLocator(target)) \in 2..4
    /\ info.xpath = CombinedLocator(target)
    /\ info.match_count = Len(Snapshot(info.xpath))

\* C28: a non-empty locator the synthesizer returns is well-formed, the
\* nodes it resolves to include the element, and the match count is their
\* number (so at least 1), on every exit and also with quote characters in
\* attribute or text values.
C28_LocatorContainsElement ==
    (target # 0 /\ info.xpath # EmptyX)
    => /\ Parses(info.xpath)
       /\ \E k \in 1..Len(Snapshot(info.xpath)) :
             Snapshot(info.xpath)[k] = target
       /\ info.match_count = Len(Snapshot(info.xpath))

(***************************************************************************)
(*                             FUZZY MATCHER                               *)
(***************************************************************************)
MaxTextLen == 3        \* length of the letter strings that are compared

UpperCase == <<"A", "B", "C", "D", "E", "F", "G", "H", "I", "J", "K", "L", "M",
               "N", "O", "P", "Q", "R", "S", "T", "U", "V", "W", "X", "Y", "Z">>
LowerCase == <<"a", "b", "c", "d", "e", "f", "g", "h", "i", "j", "k", "l", "m",
               "n", "o", "p", "q", "r", "s", "t", "u", "v", "w", "x", "y", "z">>
Range(f) == {f[i] : i \in DOMAIN f}

\* str.lower(), character by character
LowerChar(c) ==
    IF c \in Range(UpperCase)
    THEN LowerCase[CHOOSE i \in DOMAIN UpperCase : UpperCase[i] = c]
    ELSE c
Lower(s) == [i \in 1..Len(s) |-> LowerChar(s[i])]

\* the character classes of the regular expressions: quotes, \w and \s
\* DQ, BT, NL and TAB stand for the double quote, the backtick, the line
\* feed and the tab
DQ  == "dq"
BT  == "bt"
NL  == "nl"
TAB == "tab"
QuoteChars == {"'", DQ, BT}
WordChars  == Range(UpperCase) \cup Range(LowerCase) \cup Digits \cup {"_"}
SpaceChars == {" ", NL, TAB}

RECURSIVE Remove(_, _)
Remove(s, chars) ==
    IF s = <<>> THEN <<>>
    ELSE (IF Head(s) \in chars THEN <<>> ELSE <<Head(s)>>)
         \o Remove(Tail(s), chars)

\* line 23: runs of whitespace become one space; strip() follows
RECURSIVE CollapseSpace(_)
CollapseSpace(s) ==
    IF s = <<>> THEN <<>>
    ELSE IF Head(s) \in SpaceChars
         THEN (IF Len(s) > 1 /\ s[2] \in SpaceChars THEN <<>> ELSE <<" ">>)
              \o CollapseSpace(Tail(s))
         ELSE <<Head(s)>> \o CollapseSpace(Tail(s))

\* normalize (lines 7-23)
normalize(text) ==
    IF text = <<>> THEN <<>>
    ELSE LET lowered  == Lower(text)
             unquoted == Remove(lowered, QuoteChars)
             spaced   == [i \in 1..Len(unquoted) |->
                            IF unquoted[i] \in WordChars \cup SpaceChars
                            THEN unquoted[i] ELSE " "]
         IN Trim(CollapseSpace(spaced))

\* normalize_id (lines 26-34): the characters line 34 removes
IdNoiseMutKeepsUnderscore == SpaceChars \cup {"-"} \cup QuoteChars
IdNoise == SpaceChars \cup {"-", "_"} \cup QuoteChars
normalize_id(text) ==
    IF text = <<>> THEN <<>> ELSE Remove(Lower(text), IdNoise)

\* ---- difflib.SequenceMatcher(None, a, b).ratio() ----
\* the common run of a[i..ahi] and b[j..bhi] that starts at i and j
RECURSIVE RunLen(_, _, _, _, _, _)
RunLen(a, b, i, j, ahi, bhi) ==
    IF i > ahi \/ j > bhi \/ a[i] # b[j] THEN 0
    ELSE 1 + RunLen(a, b, i + 1, j + 1, ahi, bhi)

\* find_longest_match: the longest block of a[alo..ahi] and b[blo..bhi]; of
\* several longest ones the one that starts earliest in a, and of those the
\* one that starts earliest in b
FindLongestMatch(a, b, alo, ahi, blo, bhi) ==
    LET starts == (alo..ahi) \X (blo..bhi)
        size(p) == RunLen(a, b, p[1], p[2], ahi, bhi)
    IN IF starts = {} THEN <<alo, blo, 0>>
       ELSE LET best == CHOOSE p \in starts :
                          \A q \in starts :
                             \/ size(p) > size(q)
                             \/ /\ size(p) = size(q)
                                /\ \/ p[1] < q[1]
                                   \/ p[1] = q[1] /\ p[2] <= q[2]
            IN <<best[1], best[2], size(best)>>

\* get_matching_blocks: the total size of the blocks found by splitting
\* around the longest match, left part and right part
RECURSIVE Matches(_, _, _, _, _, _)
Matches(a, b, alo, ahi, blo, bhi) ==
    LET m == FindLongestMatch(a, b, alo, ahi, blo, bhi)
    IN IF m[3] = 0 THEN 0
       ELSE m[3]
            + Matches(a, b, alo, m[1] - 1, blo, m[2] - 1)
            + Matches(a, b, m[1] + m[3], ahi, m[2] + m[3], bhi)

\* ratio(): 2.0 * matches / (len(a) + len(b)), 1.0 for two empty strings;
\* the quotient is kept as a fraction
Fraction(n, d) == [num |-> n, den |-> d]
Zero == Fraction(0, 1)
One  == Fraction(1, 1)
Ratio(a, b) ==
    IF Len(a) + Len(b) = 0 THEN One
    ELSE Fraction(2 * Matches(a, b, 1, Len(a), 1, Len(b)), Len(a) + Len(b))
SameValue(x, y) == x.num * y.den = y.num * x.den
AtLeast(x, n, d) == x.num * d >= n * x.den

\* similarity (lines 37-41)
similarity(t1, t2) ==
    IF t1 = <<>> \/ t2 = <<>> THEN Zero
    ELSE Ratio(normalize(t1), normalize(t2))

\* id_similarity (lines 44-48)
id_similarity(t1, t2) ==
    IF t1 = <<>> \/ t2 = <<>> THEN Zero
    ELSE Ratio(normalize_id(t1), normalize_id(t2))

\* the strings that are compared: every string of up to MaxTextLen letters,
\* and identifiers written with separators, quotes and capitals
RECURSIVE StringsOver(_, _)
StringsOver(chars, n) ==
    IF n = 0 THEN {<<>>}
    ELSE LET shorter == StringsOver(chars, n - 1)
         IN shorter \cup {Append(w, c) : w \in shorter, c \in chars}
IdTexts ==
    { <<"a", "-", "b">>, <<"a", "_", "b">>, <<"a", " ", "b">>, <<"A", "b">>,
      <<"a", "'", "B">>, <<"a", DQ, "b">>, <<BT, "a", "b">>,
      <<"a", ".", "b">>, <<"-">>, <<"_", " ">> }
MatchTexts == StringsOver({"a", "b", "c"}, MaxTextLen) \cup IdTexts

NoScore == [fn |-> "none", value |-> Zero]
IdleMatchVars == text1 = <<>> /\ text2 = <<>> /\ score = NoScore
InitMatchVars ==
    /\ text1 \in MatchTexts
    /\ text2 \in MatchTexts
    /\ score = NoScore

MatchOnly == UNCHANGED <<pageVars, rankVars, synthVars, hintVars, scrollVars,
                         findVars, toolVars>>

Similarity ==
    /\ score' = [fn |-> "similarity", value |-> similarity(text1, text2)]
    /\ UNCHANGED <<text1, text2>>
    /\ MatchOnly

IdSimilarity ==
    /\ score' = [fn |-> "id_similarity", value |-> id_similarity(text1, text2)]
    /\ UNCHANGED <<text1, text2>>
    /\ MatchOnly

NextMatch == Similarity \/ IdSimilarity

\* ---- properties of the matcher ----
\* C12: similarity is symmetric: similarity(a, b) = similarity(b, a).
C12_SimilaritySymmetric ==
    score.fn = "similarity" =>
        SameValue(score.value, similarity(text2, text1))

\* two strings differ only in spaces, hyphens, underscores, quotes and
\* letter case
Separators == {" ", "-", "_", "'", DQ, BT}
RECURSIVE Folded(_)
Folded(s) ==
    IF s = <<>> THEN <<>>
    ELSE (IF Head(s) \in Separators THEN <<>> ELSE <<LowerChar(Head(s))>>)
         \o Folded(Tail(s))

\* C13: for two non-empty strings that differ only in spaces, hyphens,
\* underscores, quote characters and letter case, id_similarity is 1.0.
C13_SeparatorsAndCaseIgnored ==
    (/\ score.fn = "id_similarity"
     /\ text1 # <<>> /\ text2 # <<>>
     /\ Folded(text1) = Folded(text2))
    => SameValue(score.value, One)

\* C13 witness: a-b and a_b have been compared and scored 1.0
C13_Witness ==
    /\ score.fn = "id_similarity"
    /\ text1 = <<"a", "-", "b">> /\ text2 = <<"a", "_", "b">>
    /\ SameValue(score.value, One)

(***************************************************************************)
(*                             HINT PARSING                                *)
(***************************************************************************)
\* the characters ['"] of the patterns of lines 25-29
HintQuotes == {"'", DQ}

\* str.strip()
RECURSIVE StripLeft(_)
StripLeft(s) ==
    IF s # <<>> /\ Head(s) \in SpaceChars THEN StripLeft(Tail(s)) ELSE s
RECURSIVE StripRight(_)
StripRight(s) ==
    IF s # <<>> /\ s[Len(s)] \in SpaceChars
    THEN StripRight(SubSeq(s, 1, Len(s) - 1)) ELSE s
Strip(s) == StripRight(StripLeft(s))

\* the longest run of [^'"] that starts at position i
RECURSIVE Unquoted(_, _)
Unquoted(h, i) ==
    IF i > Len(h) \/ h[i] \in HintQuotes THEN <<>>
    ELSE <<h[i]>> \o Unquoted(h, i + 1)

\* ['"]([^'"]+)['"] matched at position i: a quote, one character or more
\* that are not quotes, a quote.  The run is greedy and cannot give back a
\* character, since the character after a shorter run is not a quote.
QuotedAt(h, i) ==
    /\ i <= Len(h) /\ h[i] \in HintQuotes
    /\ Unquoted(h, i + 1) # <<>>
    /\ i + 1 + Len(Unquoted(h, i + 1)) <= Len(h)

\* re.search(pattern, hint, re.IGNORECASE) for the patterns of lines 25-28:
\* the positions at which key=['"]([^'"]+)['"] matches
MatchesAt(h, key) ==
    {i \in 1..Len(h) :
        /\ i + Len(key) - 1 <= Len(h)
        /\ Lower(SubSeq(h, i, i + Len(key) - 1)) = key
        /\ QuotedAt(h, i + Len(key))}
\* group(1) of the leftmost match
Group(h, key) ==
    LET i == CHOOSE j \in MatchesAt(h, key) : \A k \in MatchesAt(h, key) : j <= k
    IN Unquoted(h, i + Len(key) + 1)

\* line 29: ^['"]([^'"]+)['"]$, where $ also matches before a final line feed
BareQuoted(h) ==
    /\ QuotedAt(h, 1)
    /\ LET rest == SubSeq(h, 3 + Len(Unquoted(h, 2)), Len(h))
       IN rest = <<>> \/ rest = <<NL>>

K_text        == <<"t", "e", "x", "t", "=">>
K_label       == <<"l", "a", "b", "e", "l", "=">>
K_placeholder == <<"p", "l", "a", "c", "e", "h", "o", "l", "d", "e", "r", "=">>
K_aria_label  == <<"a", "r", "i", "a", "-">> \o K_label
\* lines 24-30, without the bare form
patterns == <<K_text, K_label, K_placeholder, K_aria_label>>

\* _parse_hint (lines 19-37)
RECURSIVE FirstGroup(_, _)
FirstGroup(h, n) ==
    IF n > Len(patterns)
    THEN (IF BareQuoted(h) THEN Unquoted(h, 2) ELSE Strip(h))
    ELSE IF MatchesAt(h, patterns[n]) # {} THEN Group(h, patterns[n])
    ELSE FirstGroup(h, n + 1)
_parse_hint(h) == FirstGroup(h, 1)

\* the hints: an optional lead, an optional key (one in capitals), an optional
\* opening quote, a text, an optional closing quote, an optional tail
HintLeads  == {<<>>, <<" ">>, <<"o", "n">>}
HintKeys   == {<<>>, K_text, <<"T", "e", "x", "t", "=">>, K_label,
               K_placeholder, K_aria_label}
HintOpens  == {<<>>, <<"'">>, <<DQ>>}
HintTexts  == {<<>>, <<"G", "o">>, <<"I", "t", "'", "s">>, <<"a", " ", "b">>}
HintTails  == {<<>>, <<" ">>, <<" ">> \o K_text \o <<"'", "Z", "'">>}
Hints ==
    {lead \o key \o open \o text \o close \o tail :
        lead \in HintLeads, key \in HintKeys, open \in HintOpens,
        text \in HintTexts, close \in HintOpens, tail \in HintTails}

Unparsed == [set |-> FALSE, text |-> <<>>]
IdleHintVars == hint = <<>> /\ search_text = Unparsed
InitHintVars == hint \in Hints /\ search_text = Unparsed

HintOnly == UNCHANGED <<pageVars, rankVars, synthVars, matchVars, scrollVars,
                        findVars, toolVars>>

\* line 75 / line 117: search_text = _parse_hint(hint)
ParseHint ==
    /\ search_text' = [set |-> TRUE, text |-> _parse_hint(hint)]
    /\ UNCHANGED hint
    /\ HintOnly

NextHint == ParseHint

\* C17: for a hint of the form text='X', X not empty, the effective search
\* text is exactly X, for every X (such as Let's Start, or here It's).
C17_TextFormGivesItsContent ==
    search_text.set =>
        \A x \in HintTexts \ {<<>>} :
            hint = K_text \o <<"'">> \o x \o <<"'">> => search_text.text = x


(***************************************************************************)
(*                            SCROLL ROUTINE                               *)
(***************************************************************************)
\* _scroll_to_load (browser.py 80-96).  body_height is the document's
\* scrollHeight and scroll.innerHeight the window's innerHeight, both the
\* page's; height, viewport and pos are the routine's local variables and pc
\* the await it is suspended at.
MaxHeight   == 4
MaxViewport == 2

IdleScroll == [pc |-> "idle", innerHeight |-> 0, height |-> 0, viewport |-> 0,
               pos |-> 0]
IdleScrollVars == scroll = IdleScroll /\ body_height = 0
InitScrollVars ==
    /\ body_height \in 0..MaxHeight
    /\ \E v \in 0..MaxViewport :
           scroll = [IdleScroll EXCEPT !.pc = "height", !.innerHeight = v]

ScrollOnly == UNCHANGED <<pageVars, rankVars, synthVars, matchVars, hintVars,
                          findVars, toolVars>>

\* line 83: height = await page.evaluate("document.body.scrollHeight")
MeasureHeight ==
    /\ scroll.pc = "height"
    /\ scroll' = [scroll EXCEPT !.pc = "viewport", !.height = body_height]
    /\ UNCHANGED body_height
    /\ ScrollOnly

\* line 84-85: viewport = await page.evaluate("window.innerHeight"); pos = 0
MeasureViewport ==
    /\ scroll.pc = "viewport"
    /\ scroll' = [scroll EXCEPT !.pc = "while", !.viewport = scroll.innerHeight,
                                !.pos = 0]
    /\ UNCHANGED body_height
    /\ ScrollOnly

\* lines 86-88: while pos < height: pos += viewport; scrollTo(0, pos)
ScrollDown ==
    /\ scroll.pc = "while"
    /\ scroll.pos < scroll.height
    /\ scroll' = [scroll EXCEPT !.pc = "wait",
                                !.pos = scroll.pos + scroll.viewport]
    /\ UNCHANGED body_height
    /\ ScrollOnly

\* the page loads more content while the routine waits (line 89); the model
\* stops the growth at MaxHeight
Grow ==
    /\ scroll.pc = "wait"
    /\ \E h \in (body_height + 1)..MaxHeight : body_height' = h
    /\ UNCHANGED scroll
    /\ ScrollOnly

\* lines 89-92: wait_for_timeout(300); new_height = scrollHeight;
\* if new_height > height: height = new_height
Remeasure ==
    /\ scroll.pc = "wait"
    /\ scroll' = [scroll EXCEPT
                     !.pc = "while",
                     !.height = IF body_height > scroll.height
                                THEN body_height ELSE scroll.height]
    /\ UNCHANGED body_height
    /\ ScrollOnly

\* line 86 false, line 93: scrollTo(0, 0)
ScrollTop ==
    /\ scroll.pc = "while"
    /\ ~(scroll.pos < scroll.height)
    /\ scroll' = [scroll EXCEPT !.pc = "networkidle"]
    /\ UNCHANGED body_height
    /\ ScrollOnly

\* line 94: wait_for_load_state("networkidle", timeout=5000) returns
NetworkIdle ==
    /\ scroll.pc = "networkidle"
    /\ scroll' = [scroll EXCEPT !.pc = "done"]
    /\ UNCHANGED body_height
    /\ ScrollOnly

\* an awaited call of lines 83-94 raises (the page is closed, the wait for
\* the idle network times out): control goes to line 95
Raises ==
    /\ scroll.pc \in {"height", "viewport", "wait", "networkidle"}
    /\ scroll' = [scroll EXCEPT !.pc = "except"]
    /\ UNCHANGED body_height
    /\ ScrollOnly

\* lines 95-96: except: wait_for_timeout(1000)
Except ==
    /\ scroll.pc = "except"
    /\ scroll' = [scroll EXCEPT !.pc = "done"]
    /\ UNCHANGED body_height
    /\ ScrollOnly

\* the steps the event loop takes once the awaited call has completed
ScrollStep ==
    \/ MeasureHeight \/ MeasureViewport \/ ScrollDown \/ Remeasure
    \/ ScrollTop \/ NetworkIdle \/ Except

NextScroll == ScrollStep \/ Grow \/ Raises

\* C19: the scroll routine always terminates, also for a viewport height of
\* 0 and for a page that grows after every scroll.
C19_ScrollTerminates == <>(scroll.pc = "done")

(***************************************************************************)
(*                              DISCOVERY                                  *)
(***************************************************************************)
\* find_xpath and find_multiple_xpath (tool.py) against the page whose
\* elements are doc.  hint, search_text, candidates and top_n are the
\* functions' variables of those names, ranked the value of line 88 / 124;
\* find holds the rest of the call: the await it is suspended at (pc), its
\* arguments, the loop index i, the page get_page returned, results, and
\* two records of what happened (acquired: calls of get_page; log: the
\* strategies run, with the hint's index and the page).

\* ---- the page ----
S_sign == <<"S", "i", "g", "n", " ", "I", "n">>
\* <button>Sign In</button>
P_button == Profile("button", NoAttrs, S_sign, S_sign)
\* <input aria-label="Sign In" placeholder="sign in">
P_field ==
    Profile("input", [NoAttrs EXCEPT !["aria-label"] = S_sign,
                                     !["placeholder"] = Lower(S_sign)],
            <<>>, <<>>)
P_item  == Profile("li", NoAttrs, S_x, S_x)
P_go    == Profile("li", [NoAttrs EXCEPT !["id"] = S_go], S_x, S_x)
P_upper == Profile("li", NoAttrs, S_x, S_X)
P_box   == Profile("ul", [NoAttrs EXCEPT !["id"] = S_box], <<>>, <<>>)

SingleButton == <<Element(P_button, 0)>>
FindDocs ==
    { SingleButton,
      <<Element(P_button, 0), Element(P_button, 0)>>,
      <<Element(P_button, 0), Element(P_field, 0)>>,
      <<Element(P_field, 0), Element(P_field, 0)>>,
      DocOf(P_box, P_go, 1, P_item, 2, "A"),
      DocOf(P_box, P_item, 1, P_go, 1, "B"),
      DocOf(BareContainer, P_upper, 1, P_button, 1, "B") }

\* the nodes of a set, in document order
RECURSIVE Ascending(_, _)
Ascending(S, from) ==
    IF from > Len(doc) THEN <<>>
    ELSE (IF from \in S THEN <<from>> ELSE <<>>) \o Ascending(S, from + 1)

\* A search text of letters and spaces, the only ones of the model, is as a
\* regular expression with re.I a case-insensitive substring search.
RegexSearch(st, s) == Contains(Lower(s), Lower(st))

\* get_by_text(search_text, exact=False): the innermost elements whose text
\* holds the search text, whitespace normalised and case ignored.  In the
\* documents of the model the text is that of the leaves.
GetByText(st) ==
    Ascending({e \in Nodes :
                  /\ doc[e].text # <<>>
                  /\ Contains(Lower(NormalizeSpace(doc[e].text)),
                              Lower(NormalizeSpace(st)))}, 1)

\* the ARIA role and the accessible name of an element
RoleOf(e) ==
    CASE doc[e].tag = "button" -> "button"
      [] doc[e].tag = "li"     -> "listitem"
      [] doc[e].tag = "ul"     -> "list"
      [] doc[e].tag = "input"  -> "textbox"
      [] doc[e].tag = "td"     -> "cell"
      [] OTHER                 -> "generic"
AccessibleName(e) ==
    IF doc[e].attrs["aria-label"] # <<>> THEN doc[e].attrs["aria-label"]
    ELSE IF doc[e].tag = "button" THEN NormalizeSpace(doc[e].text)
    ELSE <<>>
\* get_by_role(element_type, name=re.compile(search_text, re.I))
GetByRole(role, st) ==
    Ascending({e \in Nodes :
                  RoleOf(e) = role /\ RegexSearch(st, AccessibleName(e))}, 1)
\* get_by_label(re.compile(search_text, re.I)): no element of the documents
\* has a label element, so the label is the aria-label attribute
GetByLabel(st) ==
    Ascending({e \in Nodes :
                  /\ doc[e].attrs["aria-label"] # <<>>
                  /\ RegexSearch(st, doc[e].attrs["aria-label"])}, 1)
\* get_by_placeholder(re.compile(search_text, re.I))
GetByPlaceholder(st) ==
    Ascending({e \in Nodes :
                  /\ doc[e].attrs["placeholder"] # <<>>
                  /\ RegexSearch(st, doc[e].attrs["placeholder"])}, 1)

\* ---- confidence, in thousandths ----
\* round(n / d): to the nearest integer.  A value exactly halfway is rounded
\* by the binary value of the float product, which lies on either side of
\* it: up says which.
Round(n, d, up) ==
    LET q == n \div d
        r == n % d
    IN IF 2 * r < d THEN q
       ELSE IF 2 * r > d THEN q + 1
       ELSE IF up THEN q + 1 ELSE q

\* lines 158-169: base * (0.5 + 0.5 * sim) or base * 0.8, times 0.85 for
\* several matches
NativeConfidenceMutNoPenalty(base, has_text, sim, count, up) ==
    LET qn == IF has_text THEN sim.den + sim.num ELSE 4
        qd == IF has_text THEN 2 * sim.den ELSE 5
    IN Round(base * qn, qd, up)
NativeConfidence(base, has_text, sim, count, up) ==
    LET qn == IF has_text THEN sim.den + sim.num ELSE 4
        qd == IF has_text THEN 2 * sim.den ELSE 5
        pn == IF count > 1 THEN 17 ELSE 20
    IN Round(base * qn * pn, qd * 20, up)
\* lines 156-169
PlaywrightConfidence(base, text, st, count, up) ==
    NativeConfidence(base, text # <<>>, similarity(st, text), count, up)

\* lines 193 and 197: 0.6 + (sim - 0.5) * 0.8
FuzzyConfidenceMutFromZero(sim, up) ==
    Round(600 * sim.den + 800 * sim.num, sim.den, up)
FuzzyConfidence(sim, up) ==
    Round(200 * sim.den + 800 * sim.num, sim.den, up)

\* lines 225-226 and 231
AttributeConfidence(attr, sim, up) ==
    Round((IF attr \in {"id", "data-testid"} THEN 850 ELSE 750) * sim.num,
          sim.den, up)

\* ---- driver failures ----
\* A call of the driver raises (a timeout, a detached element, an invalid
\* query): kind says which call, q the sub-query or the attribute, e the
\* element.
\*   "query"   locator_fn() or locator.count() of sub-query q (150-151)
\*   "all"     page.locator(...).all() (181; 212 for attribute q)
\*   "element" el.inner_text() of e (184); el.get_attribute(q) of e (215)
\*   "info"    inside get_element_info, which then returns the empty record
\*             (xpath.py 178-182)
Failure(kind, q, e) == [kind |-> kind, q |-> q, e |-> e]
NoFailure == Failure("none", "", 0)

\* get_element_info(page, element)
InfoOf(e, failed) == IF failed THEN EmptyInfo ELSE ElementInfo(e)

\* ---- candidates ----
\* {**info, "confidence": ..., "strategy": ...}; node is the element the
\* info was asked for, which the dict does not hold
FoundCandidate(e, i, conf, strategy) ==
    [xpath |-> i.xpath, match_count |-> i.match_count, css |-> i.css,
     tag |-> i.tag, text |-> i.text, attributes |-> i.attributes,
     confidence |-> conf, strategy |-> strategy, node |-> e,
     src |-> 0, rank |-> 0]

\* candidates.append, for each of new: src is the place in the list
AppendAll(cands, new) ==
    LET all == cands \o new
    IN [k \in 1..Len(all) |-> [all[k] EXCEPT !.src = k]]

\* ---- strategy 1 (lines 129-173) ----
locator_attempts(element_type) ==
    LET text == [q |-> "text", base |-> 950, strategy |-> "playwright_text"]
        role == [q |-> "role", base |-> 900, strategy |-> "playwright_role"]
        label == [q |-> "label", base |-> 880,
                  strategy |-> "playwright_label"]
        placeholder == [q |-> "placeholder", base |-> 850,
                        strategy |-> "playwright_placeholder"]
    IN IF element_type # "*" THEN <<text, role, label, placeholder>>
       ELSE <<text, label, placeholder>>

Located(a, st, element_type) ==
    CASE a.q = "text"        -> GetByText(st)
      [] a.q = "role"        -> GetByRole(element_type, st)
      [] a.q = "label"       -> GetByLabel(st)
      [] a.q = "placeholder" -> GetByPlaceholder(st)

\* lines 149-171 for one attempt
Attempt(a, st, element_type, up, f) ==
    LET nodes == Located(a, st, element_type)
        count == Len(nodes)
    IN IF count > 0
       THEN LET i == InfoOf(nodes[1], f.kind = "info" /\ f.q = a.q)
            IN <<FoundCandidate(
                    nodes[1], i,
                    PlaywrightConfidence(a.base, i.text, st, count, up),
                    a.strategy)>>
       ELSE <<>>

\* lines 172-173, 200-201, 234-237: except: pass, inside the loop, which
\* goes on with the items that are left
AfterFailureMutAborts(rest) == <<>>
AfterFailure(rest) == rest

RECURSIVE Attempts(_, _, _, _, _)
Attempts(as, st, element_type, up, f) ==
    IF as = <<>> THEN <<>>
    ELSE IF f.kind = "query" /\ f.q = Head(as).q
    THEN AfterFailure(Attempts(Tail(as), st, element_type, up, f))
    ELSE Attempt(Head(as), st, element_type, up, f)
         \o Attempts(Tail(as), st, element_type, up, f)

_find_via_playwright(st, element_type, up, f) ==
    Attempts(locator_attempts(element_type), st, element_type, up, f)

\* ---- strategy 2 (lines 176-203) ----
FuzzySelector == {"button", "a", "input", "label", "span", "div", "h1",
                  "h2", "h3", "p", "li"}
FuzzyLimit == 100
FuzzyMaxText == 200

\* page.locator(selector).all()
FuzzyElements(element_type) ==
    Ascending({e \in Nodes :
                  IF element_type # "*" THEN doc[e].tag = element_type
                  ELSE doc[e].tag \in FuzzySelector}, 1)

\* lines 184-199 for one element
FuzzyCandidate(e, st, up, f) ==
    LET text == doc[e].inner
        sim  == similarity(st, text)
    IN IF text = <<>> \/ Len(text) > FuzzyMaxText THEN <<>>
       ELSE IF AtLeast(sim, 1, 2)
            THEN <<FoundCandidate(
                      e, InfoOf(e, f.kind = "info" /\ f.e = e),
                      FuzzyConfidence(sim, up), "fuzzy_text_match")>>
       ELSE <<>>

RECURSIVE FuzzyCandidates(_, _, _, _)
FuzzyCandidates(es, st, up, f) ==
    IF es = <<>> THEN <<>>
    ELSE IF f.kind = "element" /\ f.e = Head(es)
    THEN AfterFailure(FuzzyCandidates(Tail(es), st, up, f))
    ELSE FuzzyCandidate(Head(es), st, up, f)
         \o FuzzyCandidates(Tail(es), st, up, f)

\* lines 180-203: a failure of .all() is caught by the outer try
_find_via_fuzzy_text(st, element_type, up, f) ==
    IF f.kind = "all" THEN <<>>
    ELSE FuzzyCandidates(FirstN(FuzzyElements(element_type), FuzzyLimit),
                         st, up, f)

\* ---- strategy 3 (lines 206-237) ----
MATCHABLE_ATTRIBUTES == <<"id", "name", "class", "data-testid", "aria-label",
                          "placeholder", "title", "value", "alt">>
AttributeLimit == 50

\* no element of the documents has a title or an alt attribute
AttrValue(e, attr) ==
    IF attr \in AttrNames THEN doc[e].attrs[attr] ELSE <<>>

\* page.locator(f"{tag}[{attr}]").all()
AttributeElements(element_type, attr) ==
    Ascending({e \in Nodes :
                  /\ element_type # "*" => doc[e].tag = element_type
                  /\ AttrValue(e, attr) # <<>>}, 1)

\* lines 215-233 for one element
AttributeCandidate(e, attr, st, up, f) ==
    LET attr_value == AttrValue(e, attr)
        sim == id_similarity(st, attr_value)
    IN IF attr_value = <<>> THEN <<>>
       ELSE IF AtLeast(sim, 3, 5)
            THEN <<FoundCandidate(
                      e, InfoOf(e, f.kind = "info" /\ f.e = e),
                      AttributeConfidence(attr, sim, up),
                      "attribute_match_" \o attr)>>
       ELSE <<>>

RECURSIVE AttributeCandidates(_, _, _, _, _)
AttributeCandidates(es, attr, st, up, f) ==
    IF es = <<>> THEN <<>>
    ELSE IF f.kind = "element" /\ f.q = attr /\ f.e = Head(es)
    THEN AfterFailure(AttributeCandidates(Tail(es), attr, st, up, f))
    ELSE AttributeCandidate(Head(es), attr, st, up, f)
         \o AttributeCandidates(Tail(es), attr, st, up, f)

RECURSIVE OverAttributes(_, _, _, _, _)
OverAttributes(attrs, st, element_type, up, f) ==
    IF attrs = <<>> THEN <<>>
    ELSE IF f.kind = "all" /\ f.q = Head(attrs)
    THEN AfterFailure(OverAttributes(Tail(attrs), st, element_type, up, f))
    ELSE AttributeCandidates(
             FirstN(AttributeElements(element_type, Head(attrs)),
                    AttributeLimit),
             Head(attrs), st, up, f)
         \o OverAttributes(Tail(attrs), st, element_type, up, f)

_find_via_attributes(st, element_type, up, f) ==
    OverAttributes(MATCHABLE_ATTRIBUTES, st, element_type, up, f)

\* ---- the calls ----
MaxHints == 2

H_sign == K_text \o <<"'">> \o S_sign \o <<"'">>
FindHints == {H_sign, S_x, S_go}
HintLists == UNION {[1..n -> FindHints] : n \in 0..MaxHints}
ElementTypes == {"*", "button", "li"}
FindTopNs == {1, 5}
\* the sessions get_page may return
Sessions == {1, 2}

EmptyResults == [h \in {} |-> <<>>]
IdleFind == [pc |-> "idle", mode |-> "none", element_type |-> "*",
             hints |-> <<>>, i |-> 0, page |-> 0, acquired |-> 0,
             log |-> <<>>, results |-> EmptyResults]
IdleFindVars == find = IdleFind
InitFindOver(docs) ==
    /\ find = IdleFind
    /\ doc \in docs /\ target = 0 /\ info = EmptyInfo
    /\ hint = <<>> /\ search_text = Unparsed
    /\ candidates = <<>> /\ top_n = 0 /\ ranked = <<>> /\ rpc = "collect"

InitFindVars == InitFindOver(FindDocs)

FindOnly == UNCHANGED <<pageVars, rpc, synthVars, matchVars, scrollVars,
                        toolVars>>

\* line 74 / 113: the call reaches await get_page(url)
FindXPath(h, element_type, n) ==
    /\ find.pc = "idle"
    /\ find' = [find EXCEPT !.pc = "get_page", !.mode = "single",
                            !.element_type = element_type, !.hints = <<h>>]
    /\ top_n' = n
    /\ UNCHANGED <<hint, search_text, candidates, ranked>>
    /\ FindOnly

FindMultipleXPath(hs, n) ==
    /\ find.pc = "idle"
    /\ find' = [find EXCEPT !.pc = "get_page", !.mode = "batch",
                            !.element_type = "*", !.hints = hs]
    /\ top_n' = n
    /\ UNCHANGED <<hint, search_text, candidates, ranked>>
    /\ FindOnly

\* line 76 / 118: candidates = [], whatever the list held before
NewCandidatesMutKeeps(before) == before
NewCandidates(before) == <<>>

\* get_page returns: lines 75-76, or 114-118 (the loop body is entered when
\* there is a hint)
PageAcquired(p) ==
    /\ find.pc = "get_page"
    /\ IF find.hints = <<>>
       THEN /\ find' = [find EXCEPT !.pc = "done", !.page = p,
                                    !.acquired = @ + 1]
            /\ UNCHANGED <<hint, search_text>>
       ELSE /\ find' = [find EXCEPT !.pc = "playwright", !.page = p,
                                    !.acquired = @ + 1, !.i = 1]
            /\ hint' = find.hints[1]
            /\ search_text' = [set |-> TRUE,
                               text |-> _parse_hint(find.hints[1])]
    /\ candidates' = NewCandidates(candidates)
    /\ UNCHANGED <<top_n, ranked>>
    /\ FindOnly

\* get_page raises (browser.py 17-59 are not guarded): so does the call
GetPageRaised ==
    /\ find.pc = "get_page"
    /\ find' = [find EXCEPT !.pc = "raised", !.acquired = @ + 1]
    /\ UNCHANGED <<hint, search_text, candidates, top_n, ranked>>
    /\ FindOnly

Logged(strategy) ==
    Append(find.log, [i |-> find.i, strategy |-> strategy, page |-> find.page])

\* line 79 / 120
ViaPlaywright(f) ==
    /\ find.pc = "playwright"
    /\ \E up \in BOOLEAN :
          candidates' = AppendAll(candidates,
              _find_via_playwright(search_text.text, find.element_type, up,
                                   f))
    /\ find' = [find EXCEPT !.pc = "fuzzy_text", !.log = Logged("playwright")]
    /\ UNCHANGED <<hint, search_text, top_n, ranked>>
    /\ FindOnly

\* line 82 / 121
ViaFuzzyText(f) ==
    /\ find.pc = "fuzzy_text"
    /\ \E up \in BOOLEAN :
          candidates' = AppendAll(candidates,
              _find_via_fuzzy_text(search_text.text, find.element_type, up,
                                   f))
    /\ find' = [find EXCEPT !.pc = "attributes", !.log = Logged("fuzzy_text")]
    /\ UNCHANGED <<hint, search_text, top_n, ranked>>
    /\ FindOnly

\* the for loop of line 116 moves to the next hint
AdvanceMutRepeats(i) == i
Advance(i) == i + 1

\* results[hint] = ...
Put(results, h, v) ==
    [k \in DOMAIN results \cup {h} |-> IF k = h THEN v ELSE results[k]]

\* line 85 and the return of line 88; or lines 122-126: the ranking, the
\* next hint (lines 117-118) or the return
ViaAttributes(f) ==
    /\ find.pc = "attributes"
    /\ \E up \in BOOLEAN :
         LET all == AppendAll(candidates,
                       _find_via_attributes(search_text.text,
                                            find.element_type, up, f))
             result == RankCandidates(all, top_n)
         IN /\ ranked' = result
            /\ IF find.mode = "single"
               THEN /\ find' = [find EXCEPT !.pc = "done",
                                            !.log = Logged("attributes")]
                    /\ candidates' = all
                    /\ UNCHANGED <<hint, search_text>>
               ELSE IF find.i < Len(find.hints)
               THEN /\ find' = [find EXCEPT
                                   !.pc = "playwright",
                                   !.log = Logged("attributes"),
                                   !.results = Put(@, hint, result),
                                   !.i = Advance(find.i)]
                    /\ hint' = find.hints[Advance(find.i)]
                    /\ search_text' =
                          [set |-> TRUE,
                           text |-> _parse_hint(find.hints[Advance(find.i)])]
                    /\ candidates' = NewCandidates(all)
               ELSE /\ find' = [find EXCEPT
                                   !.pc = "done",
                                   !.log = Logged("attributes"),
                                   !.results = Put(@, hint, result)]
                    /\ candidates' = all
                    /\ UNCHANGED <<hint, search_text>>
    /\ UNCHANGED top_n
    /\ FindOnly

NextFind ==
    \/ \E h \in FindHints, t \in ElementTypes, n \in FindTopNs :
          FindXPath(h, t, n)
    \/ \E hs \in HintLists, n \in FindTopNs : FindMultipleXPath(hs, n)
    \/ \E p \in Sessions : PageAcquired(p)
    \/ GetPageRaised
    \/ ViaPlaywright(NoFailure)
    \/ ViaFuzzyText(NoFailure)
    \/ ViaAttributes(NoFailure)

\* the failures of one strategy run: none, or one call of the driver
Queries == {"text", "role", "label", "placeholder"}
PlaywrightFailures ==
    {NoFailure} \cup {Failure(k, q, 0) : k \in {"query", "info"}, q \in Queries}
FuzzyFailures ==
    {NoFailure, Failure("all", "", 0)}
    \cup {Failure(k, "", e) : k \in {"element", "info"}, e \in Nodes}
AttributeFailures ==
    {NoFailure}
    \cup {Failure("all", a, 0) : a \in Range(MATCHABLE_ATTRIBUTES)}
    \cup {Failure("element", a, e) :
              a \in Range(MATCHABLE_ATTRIBUTES), e \in Nodes}
    \cup {Failure("info", "", e) : e \in Nodes}

\* discovery with a driver that can fail
NextFaulty ==
    \/ \E h \in FindHints, t \in ElementTypes, n \in FindTopNs :
          FindXPath(h, t, n)
    \/ \E hs \in {l \in HintLists : Len(l) <= 1}, n \in FindTopNs :
          FindMultipleXPath(hs, n)
    \/ \E p \in {1} : PageAcquired(p)
    \/ GetPageRaised
    \/ \E f \in PlaywrightFailures : ViaPlaywright(f)
    \/ \E f \in FuzzyFailures : ViaFuzzyText(f)
    \/ \E f \in AttributeFailures : ViaAttributes(f)


(***************************************************************************)
(*                              FILE TOOLS                                 *)
(***************************************************************************)
\* read_file, list_directory and edit_file (utils/file_tools.py) on a small
\* file system.  A location is the sequence of the names on the way from
\* "/", a name a sequence of characters.
\*
\*   /r            the directory PROJECT_PATH lies in
\*   /r/t          PROJECT_PATH, with the file a, the directory d holding
\*                 another file a, and the symbolic link k to /r/o
\*   /r/t2         a sibling whose name begins with the name of the root
\*   /r/o          another sibling; both siblings hold a file a
N_parent == <<"r">>
N_root   == <<"t">>
N_like   == <<"t", "2">>
N_other  == <<"o">>
N_dir    == <<"d">>
N_file   == <<"a">>
N_link   == <<"k">>
Up       == <<".", ".">>
Here     == <<".">>

PROJECT_PATH == <<N_parent, N_root>>
Directories ==
    { <<>>, <<N_parent>>, PROJECT_PATH, PROJECT_PATH \o <<N_dir>>,
      <<N_parent, N_like>>, <<N_parent, N_other>> }
FileLocs ==
    { PROJECT_PATH \o <<N_file>>, PROJECT_PATH \o <<N_dir, N_file>>,
      <<N_parent, N_like, N_file>>, <<N_parent, N_other, N_file>> }
\* where a location leads: the target of the link, else itself
LinkTarget(p) ==
    IF p = PROJECT_PATH \o <<N_link>> THEN <<N_parent, N_other>> ELSE p

\* file contents are sequences of the tokens x and y
Tokens == {"x", "y"}
InitialContent(f) ==
    IF f = PROJECT_PATH \o <<N_dir, N_file>> THEN <<"x", "x">> ELSE <<"x">>

\* ---- pathlib ----
\* Path.resolve(): ".." and "." are worked off, links followed; names that do
\* not exist are kept
RECURSIVE Walk(_, _)
Walk(cur, rest) ==
    IF rest = <<>> THEN cur
    ELSE LET n == Head(rest)
         IN IF n = Here THEN Walk(cur, Tail(rest))
            ELSE IF n = Up
            THEN Walk(IF cur = <<>> THEN <<>>
                      ELSE SubSeq(cur, 1, Len(cur) - 1), Tail(rest))
            ELSE Walk(LinkTarget(Append(cur, n)), Tail(rest))
Resolve(p) == Walk(<<>>, p)

\* PROJECT_PATH / relative_path: an absolute argument replaces the left side
Join(arg) == IF arg.abs THEN arg.segs ELSE PROJECT_PATH \o arg.segs

\* str(path)
RECURSIVE Flat(_)
Flat(p) == IF p = <<>> THEN <<>> ELSE <<"/">> \o Head(p) \o Flat(Tail(p))
Str(p) == IF p = <<>> THEN <<"/">> ELSE Flat(p)

\* the path is PROJECT_PATH or a location below it
InProject(resolved) ==
    /\ Len(Resolve(PROJECT_PATH)) <= Len(resolved)
    /\ SubSeq(resolved, 1, Len(Resolve(PROJECT_PATH))) = Resolve(PROJECT_PATH)
\* line 42: str(resolved).startswith(str(PROJECT_PATH.resolve()))
Within(resolved) == StartsWith(Str(resolved), Str(Resolve(PROJECT_PATH)))

\* _resolve_safe (lines 35-44); None is [ok |-> FALSE]
NoPath == [ok |-> FALSE, path |-> <<>>]
_resolve_safe(arg) ==
    LET resolved == Resolve(Join(arg))
    IN IF ~Within(resolved) THEN NoPath
       ELSE [ok |-> TRUE, path |-> resolved]

\* ---- the tools ----
NoAccess == [how |-> "none", path |-> <<>>]
IdleFiles == [fs |-> [f \in FileLocs |-> InitialContent(f)],
              tool |-> "none", outside |-> FALSE, accessed |-> NoAccess,
              result |-> "none"]
\* what a call leaves: outside says that the argument resolves to a location
\* that is neither PROJECT_PATH nor below it
Called(tool, arg, accessed, result, fs) ==
    [fs |-> fs, tool |-> tool,
     outside |-> ~InProject(Resolve(Join(arg))),
     accessed |-> accessed, result |-> result]
FilesOnly == UNCHANGED <<pageVars, rankVars, synthVars, matchVars, hintVars,
                         scrollVars, findVars, batch>>

\* The files of the model are below MAX_FILE_SIZE_BYTES and valid UTF-8, and
\* no call of the operating system fails.
\* read_file (lines 51-98)
ReadFile(arg) ==
    /\ LET r == _resolve_safe(arg)
       IN files' =
            IF ~r.ok THEN Called("read_file", arg, NoAccess, "denied", files.fs)
            ELSE IF r.path \notin FileLocs \cup Directories
            THEN Called("read_file", arg, NoAccess, "not_found", files.fs)
            ELSE IF r.path \notin FileLocs
            THEN Called("read_file", arg, NoAccess, "not_a_file", files.fs)
            ELSE Called("read_file", arg, [how |-> "read", path |-> r.path],
                        "content", files.fs)
    /\ FilesOnly

\* list_directory (lines 105-167)
ListDirectory(arg) ==
    /\ LET r == _resolve_safe(arg)
       IN files' =
            IF ~r.ok
            THEN Called("list_directory", arg, NoAccess, "denied", files.fs)
            ELSE IF r.path \notin FileLocs \cup Directories
            THEN Called("list_directory", arg, NoAccess, "not_found",
                        files.fs)
            ELSE IF r.path \notin Directories
            THEN Called("list_directory", arg, NoAccess, "not_a_directory",
                        files.fs)
            ELSE Called("list_directory", arg,
                        [how |-> "list", path |-> r.path], "entries",
                        files.fs)
    /\ FilesOnly

\* content.count(old_string) and content.replace(old_string, new_string)
Count(content, old) == Cardinality({i \in 1..Len(content) : content[i] = old})
Replace(content, old, new) ==
    [i \in 1..Len(content) |-> IF content[i] = old THEN new ELSE content[i]]

\* edit_file (lines 174-260)
EditFile(arg, old_string, new_string, replace_all) ==
    /\ LET r == _resolve_safe(arg)
       IN files' =
            IF ~r.ok
            THEN Called("edit_file", arg, NoAccess, "denied", files.fs)
            ELSE IF r.path \notin FileLocs
            THEN Called("edit_file", arg, NoAccess, "not_found", files.fs)
            ELSE LET content == files.fs[r.path]
                     occurrences == Count(content, old_string)
                     read == [how |-> "read", path |-> r.path]
                 IN IF occurrences = 0
                    THEN Called("edit_file", arg, read, "string_not_found",
                                files.fs)
                    ELSE IF occurrences > 1 /\ ~replace_all
                    THEN Called("edit_file", arg, read, "several", files.fs)
                    ELSE Called("edit_file", arg,
                                [how |-> "write", path |-> r.path], "edited",
                                [files.fs EXCEPT ![r.path] =
                                    Replace(content, old_string, new_string)])
    /\ FilesOnly

\* the arguments: relative paths of up to MaxSegs names, and the locations
\* of the file system as absolute paths
MaxSegs == 3
SegNames == {Up, N_like, N_other, N_dir, N_file, N_link}
PathArgs ==
    {[abs |-> FALSE, segs |-> p] :
        p \in UNION {[1..n -> SegNames] : n \in 0..MaxSegs}}
    \cup {[abs |-> TRUE, segs |-> p] : p \in Directories \cup FileLocs}

NextFiles ==
    \/ \E arg \in PathArgs : ReadFile(arg)
    \/ \E arg \in PathArgs : ListDirectory(arg)
    \/ \E arg \in PathArgs, old \in Tokens, replace_all \in BOOLEAN :
          \E new \in Tokens \ {old} : EditFile(arg, old, new, replace_all)

\* C22: a tool reads, lists or writes a location only if it is PROJECT_PATH
\* or lies below it, and an argument that resolves to any other location
\* is answered with the error 'Access denied' without an access.
C22_NoAccessOutsideProject ==
    /\ files.accessed.how # "none" =>
          InProject(files.accessed.path)
    /\ files.outside =>
          files.result = "denied" /\ files.accessed.how = "none"

(***************************************************************************)
(*                          TEST CASE READER                               *)
(***************************************************************************)
\* The command line of utils/tool_read_test_case.py.  The TOON file holds
\* batch.cases test cases, numbered from 1 in file order; batch.phrased are
\* the test cases whose own text contains "End of Test Cases" or "No test
\* cases found" (a title, a step, an expected message).  state_file is
\* .batch_state: -1 when the file does not exist, else the integer in it.
\* out is what the last run printed, auto whether it was a run without
\* arguments.
MaxCases == 12
MaxIndex == 4
batch_size == 5
Absent == -1

NoOutput == [kind |-> "none", index |-> 0, from |-> 0, to |-> 0,
             end |-> FALSE]
IdleBatch == [cases |-> 0, phrased |-> {}, state_file |-> Absent,
              out |-> NoOutput, auto |-> FALSE, loaded |-> 0]
InitBatch ==
    \E n \in 0..MaxCases, ph \in {{}} \cup {{k} : k \in 1..MaxCases} :
       /\ ph \subseteq 1..n
       /\ batch = [IdleBatch EXCEPT !.cases = n, !.phrased = ph]

Min(a, b) == IF a < b THEN a ELSE b
\* line 296 / 371
total_batches(n) == (n + batch_size - 1) \div batch_size

\* tool_read_test_case(batch_index=..., batch_size=5), lines 261-311: the
\* kind of the text, the test cases from..to it holds, and whether its
\* header says "# End of Test Cases."
ReadBatch(batch_index) ==
    LET start_idx == batch_index * batch_size
        end_idx   == start_idx + batch_size
    IN IF batch.cases = 0
       THEN [NoOutput EXCEPT !.kind = "error"]
       ELSE IF start_idx >= batch.cases
       THEN [NoOutput EXCEPT !.kind = "not_found", !.index = batch_index]
       ELSE [kind |-> "batch", index |-> batch_index,
             from |-> start_idx + 1, to |-> Min(end_idx, batch.cases),
             end |-> ~(batch_index + 1 < total_batches(batch.cases))]

\* line 383: "End of Test Cases" in output or "No test cases found" in
\* output, for the whole text that is printed
HasPhrase(out) ==
    \/ out.kind = "not_found"
    \/ out.kind = "batch" /\ out.end
    \/ out.kind = "batch" /\ \E k \in out.from..out.to : k \in batch.phrased

\* load_state (lines 315-331)
load_state == IF batch.state_file = Absent THEN 0 ELSE batch.state_file

BatchOnly == UNCHANGED <<pageVars, rankVars, synthVars, matchVars, hintVars,
                         scrollVars, findVars, files>>

\* the next index saved after a text without the phrases (line 384)
NextIndex(current_idx) == current_idx + 1

\* python utils/tool_read_test_case.py, lines 364-388
AutoRun ==
    /\ load_state < MaxIndex
    /\ LET loaded == load_state
           total == total_batches(batch.cases)
           current_idx == IF loaded >= total /\ total > 0 THEN 0 ELSE loaded
           output == ReadBatch(current_idx)
       IN batch' = [batch EXCEPT
                      !.out = output, !.auto = TRUE, !.loaded = loaded,
                      !.state_file = IF ~HasPhrase(output)
                                     THEN NextIndex(current_idx) ELSE 0]
    /\ BatchOnly

\* python utils/tool_read_test_case.py N, lines 357-358
ManualRun(index) ==
    /\ batch' = [batch EXCEPT !.out = ReadBatch(index), !.auto = FALSE]
    /\ BatchOnly

\* python utils/tool_read_test_case.py --reset, lines 359-361
ResetRun ==
    /\ batch' = [batch EXCEPT !.out = NoOutput, !.auto = FALSE,
                              !.state_file = 0]
    /\ BatchOnly

NextBatch ==
    \/ AutoRun
    \/ \E index \in 0..MaxIndex : ManualRun(index)
    \/ ResetRun

\* C23: with test cases in the file, a run without arguments prints the
\* batch of the persisted index and persists the next index, and after the
\* last batch persists 0: from index 0 the runs print batch 0, 1, ..., T-1
\* and start again.
C23_AutoRunsWalkAllBatches ==
    (/\ batch.auto /\ batch.cases > 0
     /\ batch.loaded < total_batches(batch.cases))
    => /\ batch.out.kind = "batch" /\ batch.out.index = batch.loaded
       /\ batch.state_file =
             (batch.loaded + 1) % total_batches(batch.cases)

IdleToolVars == files = IdleFiles /\ batch = IdleBatch

(***************************************************************************)
(*                            SPECIFICATIONS                               *)
(***************************************************************************)
Init == /\ InitPageVars /\ IdleRankVars /\ IdleSynthVars /\ IdleMatchVars
        /\ IdleHintVars /\ IdleScrollVars /\ IdleFindVars
        /\ IdleToolVars
Next == NextPage
Spec == Init /\ [][Next]_vars

SpecCrash == Init /\ [][NextCrash]_vars

InitRank == Init
SpecRank == InitRank /\ [][NextRank]_vars

InitSynth == /\ InitPageVars /\ IdleRankVars /\ InitSynthVars
             /\ IdleMatchVars /\ IdleHintVars /\ IdleScrollVars
             /\ IdleFindVars
             /\ IdleToolVars
SpecSynth == InitSynth /\ [][NextSynth]_vars

(***************************************************************************)
(* Properties of discovery                                                 *)
(***************************************************************************)
NativeStrategies == {"playwright_text", "playwright_role",
                     "playwright_label", "playwright_placeholder"}

\* C11: for the hint text='Sign In' against a page whose only element is
\* <button>Sign In</button>, find_xpath returns exactly one candidate, whose
\* strategy is a native one and whose confidence is at least 0.9.
C11_SignInIsNative ==
    (/\ find.pc = "done" /\ find.mode = "single"
     /\ find.hints = <<H_sign>> /\ doc = SingleButton /\ top_n >= 1)
    => /\ Len(ranked) = 1
       /\ ranked[1].strategy \in NativeStrategies
       /\ ranked[1].confidence >= 900

\* what a batch call over hs against page p runs, in order
RECURSIVE ExpectedLog(_, _, _)
ExpectedLog(hs, p, from) ==
    IF from > Len(hs) THEN <<>>
    ELSE << [i |-> from, strategy |-> "playwright", page |-> p],
            [i |-> from, strategy |-> "fuzzy_text", page |-> p],
            [i |-> from, strategy |-> "attributes", page |-> p] >>
         \o ExpectedLog(hs, p, from + 1)
IsPrefix(a, b) == Len(a) <= Len(b) /\ SubSeq(b, 1, Len(a)) = a

\* C16: a batch call acquires the page once, whatever the number of hints,
\* and runs the three strategies once per hint, hint by hint in list order,
\* against that page: at every moment what has run is the beginning of that
\* sequence, and at the return it is the whole of it.
C16_BatchOnePageThreeStrategiesPerHint ==
    find.mode = "batch" =>
        /\ find.acquired <= 1
        /\ IsPrefix(find.log, ExpectedLog(find.hints, find.page, 1))
        /\ find.pc = "done" =>
              /\ find.acquired = 1
              /\ find.log = ExpectedLog(find.hints, find.page, 1)

\* C16 witness: a batch call over two different hints has returned, six
\* strategy runs after one acquisition.
C16_Witness ==
    /\ find.mode = "batch" /\ find.pc = "done" /\ find.acquired = 1
    /\ Len(find.hints) = 2 /\ find.hints[1] # find.hints[2]
    /\ Len(find.log) = 6
    /\ DOMAIN find.results = {find.hints[1], find.hints[2]}

\* the similarity values n/d of [0, 1] with d up to MaxDen, and the match
\* counts up to MaxCount
MaxDen   == 6
MaxCount == 3
SimGrid == {Fraction(x[1], x[2]) :
               x \in {y \in (0..MaxDen) \X (1..MaxDen) : y[1] <= y[2]}}
\* C18: every candidate a strategy produces, and so every entry returned,
\* has a confidence in [0, 1] (0 to 1000 thousandths); so has every value of
\* the three confidence formulas over similarities in [0, 1].
C18_ConfidenceWithinUnit ==
    /\ \A k \in 1..Len(candidates) : candidates[k].confidence \in 0..1000
    /\ \A k \in 1..Len(ranked) : ranked[k].confidence \in 0..1000
    /\ \A h \in DOMAIN find.results :
          \A k \in 1..Len(find.results[h]) :
              find.results[h][k].confidence \in 0..1000
    /\ \A sim \in SimGrid, up \in BOOLEAN :
          /\ FuzzyConfidence(sim, up) \in 0..1000
          /\ \A attr \in Range(MATCHABLE_ATTRIBUTES) :
                AttributeConfidence(attr, sim, up) \in 0..1000
          /\ \A a \in Range(locator_attempts("button")),
                count \in 1..MaxCount, has_text \in BOOLEAN :
                NativeConfidence(a.base, has_text, sim, count, up)
                    \in 0..1000

\* C18 witness: a search has returned with candidates of all three
\* strategies, among them one at 1.0, one for a query with several matches,
\* and one without element text.
C18_Witness ==
    /\ find.pc = "done" /\ ranked # <<>>
    /\ \E k \in 1..Len(candidates) : candidates[k].confidence = 1000
    /\ \E k \in 1..Len(candidates) :
          /\ candidates[k].strategy \in NativeStrategies
          /\ candidates[k].text = <<>>
    /\ \E k \in 1..Len(candidates) :
          candidates[k].strategy = "fuzzy_text_match"
    /\ \E k \in 1..Len(candidates) :
          candidates[k].strategy \notin
              NativeStrategies \cup {"fuzzy_text_match"}

\* ---- driver failures are caught where they happen ----
\* the strategy that runs at a position of find_xpath, and what follows it
Run(pc, up, f) ==
    CASE pc = "playwright" ->
           _find_via_playwright(search_text.text, find.element_type, up, f)
      [] pc = "fuzzy_text" ->
           _find_via_fuzzy_text(search_text.text, find.element_type, up, f)
      [] pc = "attributes" ->
           _find_via_attributes(search_text.text, find.element_type, up, f)
FailuresOf(pc) ==
    CASE pc = "playwright" -> PlaywrightFailures
      [] pc = "fuzzy_text" -> FuzzyFailures
      [] pc = "attributes" -> AttributeFailures
Following(pc) ==
    CASE pc = "playwright" -> "fuzzy_text"
      [] pc = "fuzzy_text" -> "attributes"
      [] pc = "attributes" -> "done"

\* the candidate c comes from the sub-query, the element or the attribute
\* enumeration where f happened
InScope(c, f, pc) ==
    CASE pc = "playwright" ->
           f.kind \in {"query", "info"} /\ c.strategy = "playwright_" \o f.q
      [] pc = "fuzzy_text" ->
           f.kind = "all" \/ (f.kind \in {"element", "info"} /\ c.node = f.e)
      [] pc = "attributes" ->
           \/ f.kind = "all" /\ c.strategy = "attribute_match_" \o f.q
           \/ /\ f.kind = "element" /\ c.node = f.e
              /\ c.strategy = "attribute_match_" \o f.q
           \/ f.kind = "info" /\ c.node = f.e

SameCandidate(c, d) ==
    [c EXCEPT !.src = 0, !.rank = 0] = [d EXCEPT !.src = 0, !.rank = 0]

FullRun(up) ==
    Len(_find_via_playwright(search_text.text, find.element_type, up,
                             NoFailure))
    + Len(_find_via_fuzzy_text(search_text.text, find.element_type, up,
                               NoFailure))
    + Len(_find_via_attributes(search_text.text, find.element_type, up,
                               NoFailure))
NativeOrder(element_type) ==
    IF element_type = "*" THEN <<"text", "label", "placeholder">>
    ELSE <<"text", "role", "label", "placeholder">>
NativeBase(q) ==
    CASE q = "text" -> 950 [] q = "role" -> 900
      [] q = "label" -> 880 [] q = "placeholder" -> 850
\* the nodes sub-query q resolves to, for the search text of the hint
Resolved(q) == Located([q |-> q], search_text.text, find.element_type)
Matching(q) == Resolved(q) # <<>>

\* base * (0.5 + 0.5 * similarity) or base * 0.8, times 0.85 for several
\* nodes, as the fraction num / den of thousandths
NativeValue(q, text) ==
    LET sim == similarity(search_text.text, text)
        pn  == IF Len(Resolved(q)) > 1 THEN 17 ELSE 20
    IN IF text # <<>>
       THEN [num |-> NativeBase(q) * (sim.den + sim.num) * pn,
             den |-> 2 * sim.den * 20]
       ELSE [num |-> NativeBase(q) * 4 * pn, den |-> 5 * 20]
Magnitude(x) == IF x < 0 THEN -x ELSE x
\* conf is the fraction v / is the thousandth nearest to it
IsValue(conf, v) == conf * v.den = v.num
IsNearest(conf, v) == 2 * Magnitude(conf * v.den - v.num) <= v.den

\* the candidates the native strategy has just added are one per matching
\* sub-query, in the order text, role, label, placeholder, each for the
\* first node of its sub-query
OnePerMatchingQuery(new) ==
    LET qs == SelectSeq(NativeOrder(find.element_type), Matching)
    IN /\ Len(new) = Len(qs)
       /\ \A k \in 1..Len(qs) :
             /\ new[k].strategy = "playwright_" \o qs[k]
             /\ new[k].node = Resolved(qs[k])[1]
             /\ new[k].xpath = ElementInfo(new[k].node).xpath
Added == SubSeq(candidates', Len(candidates) + 1, Len(candidates'))
QueryOf(c) ==
    CHOOSE q \in Queries : "playwright_" \o q = c.strategy
NativeStep == find.pc = "playwright" /\ find'.pc = "fuzzy_text"

\* C25 (as stated): the native strategy adds one candidate per matching
\* sub-query, in the order text, role (for an element type other than "*"),
\* label, placeholder, for the first node, and its confidence is
\* base * (0.5 + 0.5 * similarity) when the element has text and base * 0.8
\* otherwise, times 0.85 when several nodes matched.
C25_NativeConfidenceIsFormula ==
    [][NativeStep =>
          /\ OnePerMatchingQuery(Added)
          /\ \A k \in 1..Len(Added) :
                IsValue(Added[k].confidence,
                        NativeValue(QueryOf(Added[k]), Added[k].text))]_vars

\* C25 (amended): the same, the confidence being that value rounded to the
\* nearest thousandth.
C25_NativeConfidenceIsRoundedFormula ==
    [][NativeStep =>
          /\ OnePerMatchingQuery(Added)
          /\ \A k \in 1..Len(Added) :
                IsNearest(Added[k].confidence,
                          NativeValue(QueryOf(Added[k]), Added[k].text))]_vars

\* the native strategy has added a candidate for the role sub-query, one
\* for a sub-query with several nodes, and one whose value is not a whole
\* number of thousandths
C25_Witness ==
    /\ find.pc = "fuzzy_text"
    /\ \E k \in 1..Len(candidates) :
          candidates[k].strategy = "playwright_role"
    /\ \E k \in 1..Len(candidates) :
          /\ candidates[k].strategy \in NativeStrategies
          /\ Len(Resolved(QueryOf(candidates[k]))) > 1
    /\ \E k \in 1..Len(candidates) :
          /\ candidates[k].strategy \in NativeStrategies
          /\ candidates[k].text # <<>>
          /\ ~IsValue(candidates[k].confidence,
                      NativeValue(QueryOf(candidates[k]), candidates[k].text))

\* ---- the fuzzy strategy ----
\* A page with two texts whose similarities to one search text are close:
\* <p>aaaaaaaaa</p><span>aaaaaaaaaaaaabbbbbbbbbbb</span> and the search text
\* of 25 a, with the ratios 18/34 and 26/49.
MaxClose == 25
S_close == [k \in 1..MaxClose |-> "a"]
T_short == [k \in 1..9 |-> "a"]
T_long  == [k \in 1..24 |-> IF k <= 13 THEN "a" ELSE "b"]
P_short == Profile("p", NoAttrs, T_short, T_short)
P_long  == Profile("span", NoAttrs, T_long, T_long)
P_blank == Profile("p", NoAttrs, <<>>, <<>>)
CloseDocs ==
    { <<Element(P_short, 0), Element(P_long, 0)>>,
      <<Element(P_long, 0), Element(P_short, 0)>>,
      <<Element(P_long, 0), Element(P_blank, 0)>>,
      <<Element(P_button, 0), Element(P_short, 0)>> }
CloseHints == {S_close, T_short, S_sign}

NextClose ==
    \/ \E h \in CloseHints, t \in {"*", "p"}, n \in FindTopNs :
          FindXPath(h, t, n)
    \/ \E hs \in {<<>>, <<S_close>>}, n \in FindTopNs :
          FindMultipleXPath(hs, n)
    \/ \E p \in Sessions : PageAcquired(p)
    \/ GetPageRaised
    \/ ViaPlaywright(NoFailure)
    \/ ViaFuzzyText(NoFailure)
    \/ ViaAttributes(NoFailure)

FuzzyStep == find.pc = "fuzzy_text" /\ find'.pc = "attributes"
\* the elements the strategy examines
Examined == FirstN(FuzzyElements(find.element_type), FuzzyLimit)
Accepted(e) ==
    /\ doc[e].inner # <<>> /\ Len(doc[e].inner) <= FuzzyMaxText
    /\ AtLeast(similarity(search_text.text, doc[e].inner), 1, 2)
\* 0.6 + (sim - 0.5) * 0.8 in thousandths
FuzzyValue(e) ==
    LET sim == similarity(search_text.text, doc[e].inner)
    IN [num |-> 200 * sim.den + 800 * sim.num, den |-> sim.den]

\* The fuzzy strategy adds a candidate for exactly the examined elements
\* whose inner text is non-empty, of at most 200 characters and of
\* similarity >= 0.5 to the search text, in document order, with the
\* confidence 0.6 + (sim - 0.5) * 0.8 to the nearest thousandth, which lies
\* in [0.6, 1.0].
FuzzyCandidateIffAccepted ==
    [][FuzzyStep =>
          LET es == SelectSeq(Examined, Accepted)
          IN /\ Len(Added) = Len(es)
             /\ \A k \in 1..Len(es) :
                   /\ Added[k].node = es[k]
                   /\ Added[k].strategy = "fuzzy_text_match"
                   /\ IsNearest(Added[k].confidence, FuzzyValue(es[k]))
                   /\ Added[k].confidence \in 600..1000]_vars

\* the similarity a returned fuzzy candidate was accepted with
FuzzySim(c) == similarity(search_text.text, doc[c.node].inner)
Less(x, y) == x.num * y.den < y.num * x.den

\* C26: the fuzzy candidates of a returned list are ranked by descending
\* similarity to the search text: none is ranked above one of a higher
\* similarity.
C26_FuzzyRankedBySimilarity ==
    find.pc = "done" =>
       \A i, j \in 1..Len(ranked) :
          (/\ i < j
           /\ ranked[i].strategy = "fuzzy_text_match"
           /\ ranked[j].strategy = "fuzzy_text_match")
          => ~Less(FuzzySim(ranked[i]), FuzzySim(ranked[j]))

\* ---- batch and single-hint discovery ----
\* what find_xpath(url, h, "*", n) returns on the page: lines 75-88, the
\* roundings of the three strategies being up1, up2 and up3
SingleResult(h, n, up1, up2, up3) ==
    LET st == _parse_hint(h)
        c1 == AppendAll(<<>>, _find_via_playwright(st, "*", up1, NoFailure))
        c2 == AppendAll(c1, _find_via_fuzzy_text(st, "*", up2, NoFailure))
        c3 == AppendAll(c2, _find_via_attributes(st, "*", up3, NoFailure))
    IN RankCandidates(c3, n)

\* C29: when find_multiple_xpath(url, hints, n) has returned, its entry for
\* every hint h of the list is what find_xpath(url, h, "*", n) returns on the
\* same page: the same candidates in the same order with the same ranks,
\* whatever the other hints of the list and their order.
C29_BatchAgreesWithSingle ==
    (find.pc = "done" /\ find.mode = "batch") =>
       /\ DOMAIN find.results = Range(find.hints)
       /\ \A k \in 1..Len(find.hints) :
             \E up1, up2, up3 \in BOOLEAN :
                find.results[find.hints[k]]
                   = SingleResult(find.hints[k], top_n, up1, up2, up3)

\* a batch call of two different hints has returned, with two different
\* lists that are not empty, the first one of several candidates
C29_Witness ==
    /\ find.pc = "done" /\ find.mode = "batch"
    /\ Len(find.hints) = 2 /\ find.hints[1] # find.hints[2]
    /\ Len(find.results[find.hints[1]]) >= 2
    /\ find.results[find.hints[2]] # <<>>
    /\ find.results[find.hints[1]] # find.results[find.hints[2]]

InitFind == /\ InitPageVars /\ IdleMatchVars /\ IdleScrollVars
            /\ InitFindVars
            /\ IdleToolVars
SpecFind == InitFind /\ [][NextFind]_vars
SpecFaulty == InitFind /\ [][NextFaulty]_vars

InitFilesSpec == /\ InitPageVars /\ IdleRankVars /\ IdleSynthVars
                 /\ IdleMatchVars /\ IdleHintVars /\ IdleScrollVars
                 /\ IdleFindVars /\ files = IdleFiles /\ batch = IdleBatch
SpecFiles == InitFilesSpec /\ [][NextFiles]_vars

InitBatchSpec == /\ InitPageVars /\ IdleRankVars /\ IdleSynthVars
                 /\ IdleMatchVars /\ IdleHintVars /\ IdleScrollVars
                 /\ IdleFindVars /\ files = IdleFiles /\ InitBatch
SpecBatch == InitBatchSpec /\ [][NextBatch]_vars
InitClose == /\ InitPageVars /\ IdleMatchVars /\ IdleScrollVars
             /\ InitFindOver(CloseDocs)
             /\ IdleToolVars
SpecClose == InitClose /\ [][NextClose]_vars

InitScroll == /\ InitPageVars /\ IdleRankVars /\ IdleSynthVars
              /\ IdleMatchVars /\ IdleHintVars /\ InitScrollVars
              /\ IdleFindVars
              /\ IdleToolVars
SpecScroll == InitScroll /\ [][NextScroll]_vars
\* every awaited call of the routine completes, and the event loop resumes
\* the routine after it: weak fairness of the routine's own steps.  Nothing
\* obliges the page to grow or a call to raise.
SpecScrollLive == SpecScroll /\ WF_vars(ScrollStep)

InitHint == /\ InitPageVars /\ IdleRankVars /\ IdleSynthVars
            /\ IdleMatchVars /\ InitHintVars /\ IdleScrollVars
            /\ IdleFindVars
            /\ IdleToolVars
SpecHint == InitHint /\ [][NextHint]_vars

InitMatch == /\ InitPageVars /\ IdleRankVars /\ IdleSynthVars
             /\ InitMatchVars /\ IdleHintVars /\ IdleScrollVars
             /\ IdleFindVars
             /\ IdleToolVars
SpecMatch == InitMatch /\ [][NextMatch]_vars

=============================================================================
